---- MODULE Spec2Model ----
(***************************************************************************)
(* Linux Command Quest: the virtual filesystem (src/simulation/            *)
(* filesystem.py) as a state machine over an explicit object heap.         *)
(*                                                                         *)
(* A path string is modelled as the non-empty sequence of the pieces that  *)
(* str.split("/") returns for it, so "/" is <<"", "">>, "" is <<"">>,      *)
(* "/home/user" is <<"", "home", "user">> and "a/../b" is                  *)
(* <<"a", "..", "b">>.  String concatenation with a "/" in between is      *)
(* sequence concatenation.                                                 *)
(*                                                                         *)
(* FileNode objects live in a heap (id -> record); a children dict maps    *)
(* names to ids, so that sharing of a node between two owners is           *)
(* expressible and copy.deepcopy is a real allocation of fresh nodes.      *)
(***************************************************************************)
EXTENDS Integers, Sequences, FiniteSets, TLC

\* ------------------------------------------------------------------ bounds
MaxNodes      == 5      \* cap on the number of nodes of the live tree
MaxSnapshot   == 4      \* cap on the number of nodes of a tree that is checkpointed
MaxPathLen    == 2      \* pieces of a path argument of a filesystem call
MaxContentLen == 2      \* characters a file may hold
MaxResolveLen == 3      \* pieces of a path argument of a bare resolve call
MaxLineLen    == 4      \* atoms of a command line
MaxStages     == 2      \* stages of a pipeline that is executed
RecursionLimit == 3     \* calls of _parse the interpreter lets nest
history_max   == 2      \* lines the history keeps

\* --------------------------------------------------------------- constants
username == "user"
hostname == "quest"
home     == <<"", "home", username>>
RootPath == <<"", "">>
EmptyStr == <<"">>

\* A Permission is the set of its flags.
\* n & bit, for a digit n and a bit 1, 2 or 4
HasBit(n, bit) == (n \div bit) % 2 = 1

\* Permission.from_octal
from_octal(octal) ==
    {f \in {"R_USER"} : HasBit((octal \div 100) % 10, 4)} \cup
    {f \in {"W_USER"} : HasBit((octal \div 100) % 10, 2)} \cup
    {f \in {"X_USER"} : HasBit((octal \div 100) % 10, 1)} \cup
    {f \in {"R_GROUP"} : HasBit((octal \div 10) % 10, 4)} \cup
    {f \in {"W_GROUP"} : HasBit((octal \div 10) % 10, 2)} \cup
    {f \in {"X_GROUP"} : HasBit((octal \div 10) % 10, 1)} \cup
    {f \in {"R_OTHER"} : HasBit(octal % 10, 4)} \cup
    {f \in {"W_OTHER"} : HasBit(octal % 10, 2)} \cup
    {f \in {"X_OTHER"} : HasBit(octal % 10, 1)}

\* to_octal that leaves the flags of the others out.
to_octalNoOther(perm) ==
    (IF "R_USER" \in perm THEN 400 ELSE 0) + (IF "W_USER" \in perm THEN 200 ELSE 0) +
    (IF "X_USER" \in perm THEN 100 ELSE 0) + (IF "R_GROUP" \in perm THEN 40 ELSE 0) +
    (IF "W_GROUP" \in perm THEN 20 ELSE 0) + (IF "X_GROUP" \in perm THEN 10 ELSE 0)

\* Permission.to_octal
to_octal(perm) ==
    (IF "R_USER" \in perm THEN 400 ELSE 0) + (IF "W_USER" \in perm THEN 200 ELSE 0) +
    (IF "X_USER" \in perm THEN 100 ELSE 0) + (IF "R_GROUP" \in perm THEN 40 ELSE 0) +
    (IF "W_GROUP" \in perm THEN 20 ELSE 0) + (IF "X_GROUP" \in perm THEN 10 ELSE 0) +
    (IF "R_OTHER" \in perm THEN 4 ELSE 0) + (IF "W_OTHER" \in perm THEN 2 ELSE 0) +
    (IF "X_OTHER" \in perm THEN 1 ELSE 0)

PERM_FILE == from_octal(644)
PERM_DIR  == from_octal(755)

\* The default hierarchy, cut down to the home directory: every other entry
\* of system_dirs, user_dirs and default_files can be removed again with
\* rm -r, so the cut-down tree is one the program reaches.
user_dirs     == << home >>
default_files == << >>

\* Names a directory entry can carry, in the order used to enumerate children.
NameOrder == <<"home", username, "Documents", ".bashrc", "bin", "Music",
               "pwd", "touch", "find", ">", ">>", "'">>
Names     == {NameOrder[i] : i \in 1..Len(NameOrder)}

\* A local variable: F applied to the value of v, with v evaluated once.
Let(v, F(_)) == CHOOSE out \in {F(b) : b \in {v}} : TRUE

\* ------------------------------------------------------------ path strings
Last(s)  == s[Len(s)]
Front(s) == SubSeq(s, 1, Len(s) - 1)

\* str.startswith("/")
StartsWithSlash(p) == Len(p) >= 2 /\ p[1] = ""

\* path.replace("$HOME", home) ... path.replace("${USER}", username), on
\* paths whose pieces are either one of the four tokens or free of "$".
RECURSIVE ExpandVars(_)
ExpandVars(p) ==
    IF p = <<>> THEN <<>>
    ELSE LET s == Head(p)
             e == IF s \in {"$HOME", "${HOME}"} THEN home
                  ELSE IF s \in {"$USER", "${USER}"} THEN <<username>>
                  ELSE <<s>>
         IN  e \o ExpandVars(Tail(p))

\* Collapse without the guard on "..": at the root it is kept as a piece.
RECURSIVE CollapseKeepsDotDot(_, _)
CollapseKeepsDotDot(parts, resolved) ==
    IF parts = <<>> THEN resolved
    ELSE Let(IF Head(parts) = "" \/ Head(parts) = "." THEN resolved
             ELSE IF Head(parts) = ".." /\ resolved # <<>> THEN Front(resolved)
             ELSE Append(resolved, Head(parts)),
             LAMBDA nxt : CollapseKeepsDotDot(Tail(parts), nxt))

\* Collapse that drops ".." like ".".
RECURSIVE CollapseIgnoresDotDot(_, _)
CollapseIgnoresDotDot(parts, resolved) ==
    IF parts = <<>> THEN resolved
    ELSE Let(IF Head(parts) \in {"", ".", ".."} THEN resolved
             ELSE Append(resolved, Head(parts)),
             LAMBDA nxt : CollapseIgnoresDotDot(Tail(parts), nxt))

\* The loop of resolve over path.split("/").
RECURSIVE Collapse(_, _)
Collapse(parts, resolved) ==
    IF parts = <<>> THEN resolved
    ELSE Let(IF Head(parts) = "" \/ Head(parts) = "." THEN resolved
             ELSE IF Head(parts) = ".."
                  THEN (IF resolved # <<>> THEN Front(resolved) ELSE resolved)
                  ELSE Append(resolved, Head(parts)),
             LAMBDA nxt : Collapse(Tail(parts), nxt))

\* "/" + "/".join(resolved)
Normalized(resolved) == IF resolved = <<>> THEN RootPath ELSE <<"">> \o resolved

\* resolve without the test for an absolute path: cwd is always prepended.
ResolveAlwaysRelative(c, path) ==
    IF path = EmptyStr THEN c
    ELSE Let(ExpandVars(path), LAMBDA p1 :
         IF p1 = <<"~">> THEN home
         ELSE Let(IF Len(p1) >= 2 /\ p1[1] = "~" THEN home \o Tail(p1) ELSE p1,
                  LAMBDA p2 : Normalized(Collapse(c \o p2, <<>>))))

\* VirtualFileSystem.resolve, for the filesystem whose cwd is c.
ResolveIn(c, path) ==
    IF path = EmptyStr THEN c
    ELSE Let(ExpandVars(path), LAMBDA p1 :
         IF p1 = <<"~">> THEN home
         ELSE Let(IF Len(p1) >= 2 /\ p1[1] = "~" THEN home \o Tail(p1) ELSE p1,
                  LAMBDA p2 :
                  Normalized(Collapse(IF ~StartsWithSlash(p2) THEN c \o p2 ELSE p2,
                                       <<>>))))

\* VirtualFileSystem._split_path
SplitPath(path) ==
    IF path = EmptyStr \/ path = RootPath THEN <<>>
    ELSE SelectSeq(path, LAMBDA s : s # "")

\* ------------------------------------------------------------------- nodes
None == 0
EmptyDict == [n \in {} |-> None]

\* The characters of the names, as code points: what str comparison,
\* str.lower and str.startswith look at.
Chars(name) ==
    CASE name = "home"      -> <<104, 111, 109, 101>>
      [] name = "user"      -> <<117, 115, 101, 114>>
      [] name = "Documents" -> <<68, 111, 99, 117, 109, 101, 110, 116, 115>>
      [] name = ".bashrc"   -> <<46, 98, 97, 115, 104, 114, 99>>
      [] name = "bin"       -> <<98, 105, 110>>
      [] name = "Music"     -> <<77, 117, 115, 105, 99>>
      [] name = "/"         -> <<47>>
      [] name = "."         -> <<46>>
      [] name = "pwd"       -> <<112, 119, 100>>
      [] name = "touch"     -> <<116, 111, 117, 99, 104>>
      [] name = "find"      -> <<102, 105, 110, 100>>
      [] name = ">"         -> <<62>>
      [] name = ">>"        -> <<62, 62>>
      [] name = "'"         -> <<39>>
      [] name = ".."        -> <<46, 46>>
      [] name = "a"         -> <<97>>
      [] name = "echo"      -> <<101, 99, 104, 111>>
      [] name = "cat"       -> <<99, 97, 116>>
      [] name = "x"         -> <<120>>
      [] name = "hello"     -> <<104, 101, 108, 108, 111>>
      [] name = " "         -> <<32>>
      [] name = "\n"        -> <<10>>
      [] name = "U+0131"    -> <<305>>

\* One unit for each code point: the length of the str itself.
encodeCodePoints(content) ==
    IF content = <<>> THEN <<>>
    ELSE [i \in 1..Len(content) |-> 0]

\* The bytes of one code point in UTF-8.
Utf8(cp) ==
    IF cp < 128 THEN <<cp>>
    ELSE IF cp < 2048 THEN <<192 + (cp \div 64), 128 + (cp % 64)>>
    ELSE IF cp < 65536
    THEN <<224 + (cp \div 4096), 128 + ((cp \div 64) % 64), 128 + (cp % 64)>>
    ELSE <<240 + (cp \div 262144), 128 + ((cp \div 4096) % 64),
           128 + ((cp \div 64) % 64), 128 + (cp % 64)>>

\* str.encode('utf-8') of a sequence of code points
RECURSIVE encode(_)
encode(content) ==
    IF content = <<>> THEN <<>> ELSE Utf8(Head(content)) \o encode(Tail(content))

\* The code points of a text, a sequence of pieces.
RECURSIVE TextChars(_)
TextChars(text) == IF text = <<>> THEN <<>> ELSE Chars(Head(text)) \o TextChars(Tail(text))

\* FileNode(...) with __post_init__: a directory created with the default
\* permissions gets PERM_DIR, a file's size is the number of bytes of its
\* content in UTF-8.
FileNodeWith(name, is_dir, content, permissions, owner, group) ==
    [name        |-> name,
     is_dir      |-> is_dir,
     content     |-> content,
     children    |-> EmptyDict,
     permissions |-> IF is_dir /\ permissions = PERM_FILE THEN PERM_DIR
                     ELSE permissions,
     owner       |-> owner,
     group       |-> group,
     size        |-> IF is_dir THEN 0 ELSE Len(encode(TextChars(content)))]

\* FileNode(name=..., is_dir=..., content=..., owner=o, group=o)
FileNode(name, is_dir, content, owner) ==
    FileNodeWith(name, is_dir, content, PERM_FILE, owner, owner)

MaxOf(S)  == CHOOSE x \in S : \A y \in S : y <= x
NewId(h)  == IF DOMAIN h = {} THEN 1 ELSE MaxOf(DOMAIN h) + 1
Alloc(h, id, node) == (id :> node) @@ h

\* d[name] = id  and  del d[name]  on a children dict
SetChild(h, parent, name, id) ==
    [h EXCEPT ![parent].children = (name :> id) @@ @]
DelChild(h, parent, name) ==
    [h EXCEPT ![parent].children = [n \in (DOMAIN @) \ {name} |-> @[n]]]

\* The nodes of the object graph below id, parents before children, the
\* children of a node in NameOrder.
RECURSIVE Preorder(_, _)
RECURSIVE PreorderKids(_, _, _)
Preorder(h, id) == <<id>> \o PreorderKids(h, id, 1)
PreorderKids(h, id, k) ==
    IF k > Len(NameOrder) THEN <<>>
    ELSE (IF NameOrder[k] \in DOMAIN h[id].children
          THEN Let(h[id].children[NameOrder[k]], LAMBDA kid : Preorder(h, kid))
          ELSE <<>>)
         \o PreorderKids(h, id, k + 1)

SeqRange(s) == {s[i] : i \in 1..Len(s)}
Reach(h, id) == IF id = None THEN {} ELSE SeqRange(Preorder(h, id))

\* copy.deepcopy(node): every node below id is allocated afresh; returns the
\* grown heap and the id of the copy.  ord is the enumeration of the nodes
\* to copy.
CopyNodes(h, ord) ==
    LET base == NewId(h) - 1
        pos(n) == CHOOSE i \in 1..Len(ord) : ord[i] = n
        fresh == [j \in (base + 1)..(base + Len(ord)) |->
                    LET n == h[ord[j - base]] IN
                    [n EXCEPT !.children =
                        [c \in DOMAIN n.children |-> base + pos(n.children[c])]]]
    IN  [heap |-> fresh @@ h, id |-> base + 1]

DeepCopy(h, id) == Let(Preorder(h, id), LAMBDA ord : CopyNodes(h, ord))

\* ------------------------------------------------- VirtualFileSystem reads
\* A filesystem value fs is the record of the object's attributes:
\* heap, root, cwd, prev_cwd, checkpoint, checkpoint_cwd.
Resolve(fs, path) == ResolveIn(fs.cwd, path)

\* The loop of _get_node: a file on the way, or a missing name, gives None.
RECURSIVE Walk(_, _, _)
Walk(h, current, parts) ==
    IF parts = <<>> THEN current
    ELSE IF ~h[current].is_dir THEN None
    ELSE IF Head(parts) \notin DOMAIN h[current].children THEN None
    ELSE Let(h[current].children[Head(parts)],
             LAMBDA child : Walk(h, child, Tail(parts)))

GetNode(fs, path) ==
    Let(Resolve(fs, path), LAMBDA p :
        IF p = RootPath THEN fs.root ELSE Walk(fs.heap, fs.root, SplitPath(p)))

\* _get_parent: [parent |-> None] stands for the None result.
NoParent == [parent |-> None, name |-> ""]
GetParent(fs, path) ==
    Let(Resolve(fs, path), LAMBDA p :
        IF p = RootPath THEN NoParent
        ELSE Let(SplitPath(p), LAMBDA parts :
             Let(GetNode(fs, Normalized(Front(parts))), LAMBDA parent :
                 IF parent = None \/ ~fs.heap[parent].is_dir THEN NoParent
                 ELSE [parent |-> parent, name |-> Last(parts)])))

exists(fs, path) == GetNode(fs, path) # None
isdir(fs, path)  == Let(GetNode(fs, path), LAMBDA n : n # None /\ fs.heap[n].is_dir)
isfile(fs, path) == Let(GetNode(fs, path), LAMBDA n : n # None /\ ~fs.heap[n].is_dir)

\* ----------------------------------------------- VirtualFileSystem methods
\* Every method is an operator from the filesystem value (and the arguments)
\* to [fs |-> the filesystem afterwards, ret |-> the value returned or the
\* name of the exception raised].
Ok(fs)         == [fs |-> fs, ret |-> "True"]
Raise(fs, exc) == [fs |-> fs, ret |-> exc]
Raised(r)      == r.ret \in {"PathNotFoundError", "FileExistsError",
                             "IsADirectoryError", "PermissionError", "KeyError"}

\* cd without the isdir test.
cdNoDirTest(fs, path) ==
    Let(IF path = <<"-">> THEN fs.prev_cwd ELSE Resolve(fs, path), LAMBDA target :
        Ok([fs EXCEPT !.prev_cwd = fs.cwd, !.cwd = target]))

\* cd that does not record the directory it leaves.
cdKeepsPrev(fs, path) ==
    Let(IF path = <<"-">> THEN fs.prev_cwd ELSE Resolve(fs, path), LAMBDA target :
        IF ~isdir(fs, target) THEN [fs |-> fs, ret |-> "False"]
        ELSE Ok([fs EXCEPT !.cwd = target]))

cd(fs, path) ==
    Let(IF path = <<"-">> THEN fs.prev_cwd ELSE Resolve(fs, path), LAMBDA target :
        IF ~isdir(fs, target) THEN [fs |-> fs, ret |-> "False"]
        ELSE Ok([fs EXCEPT !.prev_cwd = fs.cwd, !.cwd = target]))

\* parent.children[name] = FileNode(name=name, is_dir=is_dir, owner=username)
NewChild(fs, parent, name, is_dir) ==
    Let(NewId(fs.heap), LAMBDA id :
        [fs EXCEPT !.heap =
            SetChild(Alloc(fs.heap, id, FileNode(name, is_dir, <<>>, username)),
                     parent, name, id)])

\* The loop of the parents branch of mkdir.
RECURSIVE MkdirParents(_, _, _)
MkdirParents(h, current, parts) ==
    IF parts = <<>> THEN h
    ELSE IF Head(parts) \in DOMAIN h[current].children
    THEN Let(h[current].children[Head(parts)],
             LAMBDA child : MkdirParents(h, child, Tail(parts)))
    ELSE Let(NewId(h), LAMBDA id :
         Let(SetChild(Alloc(h, id, FileNode(Head(parts), TRUE, <<>>, username)),
                      current, Head(parts), id),
             LAMBDA h1 : MkdirParents(h1, id, Tail(parts))))

\* mkdir without the exists test: an existing entry is replaced.
mkdirNoExistsTest(fs, path, parents) ==
    Let(Resolve(fs, path), LAMBDA target :
    Let(GetParent(fs, target), LAMBDA result :
        IF result.parent = None
        THEN (IF parents
              THEN Ok([fs EXCEPT !.heap =
                          MkdirParents(fs.heap, fs.root, SplitPath(target))])
              ELSE Raise(fs, "PathNotFoundError"))
        ELSE Ok(NewChild(fs, result.parent, result.name, TRUE))))

mkdir(fs, path, parents) ==
    Let(Resolve(fs, path), LAMBDA target :
        IF exists(fs, target) THEN Raise(fs, "FileExistsError")
        ELSE Let(GetParent(fs, target), LAMBDA result :
             IF result.parent = None
             THEN (IF parents
                   THEN Ok([fs EXCEPT !.heap =
                               MkdirParents(fs.heap, fs.root, SplitPath(target))])
                   ELSE Raise(fs, "PathNotFoundError"))
             ELSE Ok(NewChild(fs, result.parent, result.name, TRUE))))

\* touch that puts a fresh empty file at the path whether or not one exists.
touchAlwaysCreates(fs, path) ==
    Let(Resolve(fs, path), LAMBDA target :
    Let(GetParent(fs, target), LAMBDA result :
        IF result.parent = None THEN Raise(fs, "PathNotFoundError")
        ELSE Ok(NewChild(fs, result.parent, result.name, FALSE))))

\* (the modified timestamp that touch sets on an existing node is not part of
\* the model)
touch(fs, path) ==
    Let(Resolve(fs, path), LAMBDA target :
        IF GetNode(fs, target) # None THEN Ok(fs)
        ELSE Let(GetParent(fs, target), LAMBDA result :
             IF result.parent = None THEN Raise(fs, "PathNotFoundError")
             ELSE Ok(NewChild(fs, result.parent, result.name, FALSE))))

\* rm where force also silences the directory test.
rmForceRemovesDirectory(fs, path, recursive, force) ==
    Let(Resolve(fs, path), LAMBDA target :
        IF target = RootPath /\ recursive
        THEN Ok([fs EXCEPT !.heap[fs.root].children = EmptyDict])
        ELSE Let(GetNode(fs, target), LAMBDA node :
             IF node = None
             THEN (IF force THEN Ok(fs) ELSE Raise(fs, "PathNotFoundError"))
             ELSE IF fs.heap[node].is_dir /\ ~recursive /\ ~force
             THEN Raise(fs, "IsADirectoryError")
             ELSE Let(GetParent(fs, target), LAMBDA result :
                  IF result.parent = None THEN Raise(fs, "PermissionError")
                  ELSE Ok([fs EXCEPT !.heap =
                              DelChild(fs.heap, result.parent, result.name)]))))

\* rm without the special case for "/".
rmNoRootCase(fs, path, recursive, force) ==
    Let(Resolve(fs, path), LAMBDA target :
    Let(GetNode(fs, target), LAMBDA node :
        IF node = None
        THEN (IF force THEN Ok(fs) ELSE Raise(fs, "PathNotFoundError"))
        ELSE IF fs.heap[node].is_dir /\ ~recursive THEN Raise(fs, "IsADirectoryError")
        ELSE Let(GetParent(fs, target), LAMBDA result :
             IF result.parent = None THEN Raise(fs, "PermissionError")
             ELSE Ok([fs EXCEPT !.heap =
                         DelChild(fs.heap, result.parent, result.name)]))))

rm(fs, path, recursive, force) ==
    Let(Resolve(fs, path), LAMBDA target :
        IF target = RootPath /\ recursive
        THEN Ok([fs EXCEPT !.heap[fs.root].children = EmptyDict])
        ELSE Let(GetNode(fs, target), LAMBDA node :
             IF node = None
             THEN (IF force THEN Ok(fs) ELSE Raise(fs, "PathNotFoundError"))
             ELSE IF fs.heap[node].is_dir /\ ~recursive
             THEN Raise(fs, "IsADirectoryError")
             ELSE Let(GetParent(fs, target), LAMBDA result :
                  IF result.parent = None THEN Raise(fs, "PermissionError")
                  ELSE IF result.name \notin DOMAIN fs.heap[result.parent].children
                  THEN Raise(fs, "KeyError")
                  ELSE Ok([fs EXCEPT !.heap =
                              DelChild(fs.heap, result.parent, result.name)]))))

\* cat returns the content, or the name of the exception.
cat(fs, path) ==
    Let(GetNode(fs, Resolve(fs, path)), LAMBDA node :
        IF node = None THEN "PathNotFoundError"
        ELSE IF fs.heap[node].is_dir THEN "IsADirectoryError"
        ELSE fs.heap[node].content)

\* The tail of write: the content and the size of the node are set.
SetContent(fs, node, c) ==
    [fs EXCEPT !.heap[node].content = c,
               !.heap[node].size = Len(encode(TextChars(c)))]

\* write that ignores the append flag and always appends.
writeAlwaysAppends(fs, path, content, append) ==
    Let(Resolve(fs, path), LAMBDA target :
    Let(IF GetNode(fs, target) = None THEN touch(fs, path) ELSE Ok(fs), LAMBDA touched :
        IF Raised(touched) THEN touched
        ELSE Let(GetNode(touched.fs, target), LAMBDA node :
             IF touched.fs.heap[node].is_dir
             THEN Raise(touched.fs, "IsADirectoryError")
             ELSE Ok(SetContent(touched.fs, node,
                                touched.fs.heap[node].content \o content)))))

write(fs, path, content, append) ==
    Let(Resolve(fs, path), LAMBDA target :
    Let(IF GetNode(fs, target) = None THEN touch(fs, path) ELSE Ok(fs), LAMBDA touched :
        IF Raised(touched) THEN touched
        ELSE Let(GetNode(touched.fs, target), LAMBDA node :
             IF touched.fs.heap[node].is_dir
             THEN Raise(touched.fs, "IsADirectoryError")
             ELSE Ok(SetContent(touched.fs, node,
                                IF append
                                THEN touched.fs.heap[node].content \o content
                                ELSE content)))))

PathPieces(name) == IF name = "/" THEN RootPath ELSE <<name>>

cp(fs, src, dst, recursive) ==
    Let(GetNode(fs, src), LAMBDA src_node :
        IF src_node = None THEN Raise(fs, "PathNotFoundError")
        ELSE IF fs.heap[src_node].is_dir /\ ~recursive
        THEN Raise(fs, "IsADirectoryError")
        ELSE Let(DeepCopy(fs.heap, src_node), LAMBDA new :
             Let(Resolve(fs, dst), LAMBDA dst0 :
             Let(GetNode(fs, dst0), LAMBDA dst_node :
             Let(IF dst_node # None /\ fs.heap[dst_node].is_dir
                 THEN dst0 \o PathPieces(fs.heap[src_node].name)
                 ELSE dst0, LAMBDA dst_resolved :
             Let(GetParent(fs, dst_resolved), LAMBDA result :
                 IF result.parent = None THEN Raise(fs, "PathNotFoundError")
                 ELSE Ok([fs EXCEPT !.heap =
                            SetChild([new.heap EXCEPT ![new.id].name = result.name],
                                     result.parent, result.name, new.id)])))))))

\* mv that unlinks the source before it copies: when the copy raises, the
\* source is gone.
mvUnlinksFirst(fs, src, dst) ==
    IF GetNode(fs, src) = None THEN Raise(fs, "PathNotFoundError")
    ELSE Let(cp(fs, src, dst, TRUE), LAMBDA copied :
         Let(GetParent(fs, src), LAMBDA src_result :
             IF src_result.parent = None THEN copied
             ELSE IF Raised(copied)
             THEN Raise([fs EXCEPT !.heap = DelChild(fs.heap, src_result.parent,
                                                     src_result.name)], copied.ret)
             ELSE Ok([copied.fs EXCEPT !.heap =
                         DelChild(copied.fs.heap, src_result.parent,
                                  src_result.name)])))

mv(fs, src, dst) ==
    IF GetNode(fs, src) = None THEN Raise(fs, "PathNotFoundError")
    ELSE Let(cp(fs, src, dst, TRUE), LAMBDA copied :
         IF Raised(copied) THEN copied
         ELSE Let(GetParent(copied.fs, src), LAMBDA src_result :
              IF src_result.parent = None THEN Ok(copied.fs)
              ELSE IF src_result.name \notin
                          DOMAIN copied.fs.heap[src_result.parent].children
              THEN Raise(copied.fs, "KeyError")
              ELSE Ok([copied.fs EXCEPT !.heap =
                          DelChild(copied.fs.heap, src_result.parent,
                                   src_result.name)])))

\* save_checkpoint that keeps a reference to the live root instead of a copy.
saveCheckpointByReference(fs) ==
    [fs |-> [fs EXCEPT !.checkpoint = fs.root, !.checkpoint_cwd = fs.cwd],
     ret |-> "None"]

save_checkpoint(fs) ==
    Let(DeepCopy(fs.heap, fs.root), LAMBDA copy :
        [fs |-> [fs EXCEPT !.heap = copy.heap, !.checkpoint = copy.id,
                           !.checkpoint_cwd = fs.cwd],
         ret |-> "None"])

\* restore_checkpoint that installs the snapshot itself instead of a copy.
restoreCheckpointByReference(fs) ==
    IF fs.checkpoint = None THEN [fs |-> fs, ret |-> "False"]
    ELSE Ok([fs EXCEPT !.root = fs.checkpoint, !.cwd = fs.checkpoint_cwd])

restore_checkpoint(fs) ==
    IF fs.checkpoint = None THEN [fs |-> fs, ret |-> "False"]
    ELSE Let(DeepCopy(fs.heap, fs.checkpoint), LAMBDA copy :
             Ok([fs EXCEPT !.heap = copy.heap, !.root = copy.id,
                           !.cwd = fs.checkpoint_cwd]))

\* _ensure_path(path, is_dir, content): the loop over the parts.  (No path of
\* the modelled default hierarchy lies below /etc or /var, the two places
\* where intermediate directories are owned by root.)
RECURSIVE EnsureParts(_, _, _, _, _)
EnsureParts(h, current, parts, is_dir, content) ==
    IF parts = <<>> THEN h
    ELSE IF Head(parts) \in DOMAIN h[current].children
    THEN Let(h[current].children[Head(parts)],
             LAMBDA child : EnsureParts(h, child, Tail(parts), is_dir, content))
    ELSE Let(NewId(h), LAMBDA id :
         Let(SetChild(Alloc(h, id,
                            IF Len(parts) = 1
                            THEN FileNode(Head(parts), is_dir, content, username)
                            ELSE FileNode(Head(parts), TRUE, <<>>, username)),
                      current, Head(parts), id),
             LAMBDA h1 : EnsureParts(h1, id, Tail(parts), is_dir, content)))

ensure_path(h, root, path, is_dir, content) ==
    EnsureParts(h, root, SplitPath(path), is_dir, content)

\* _init_default_structure on a heap whose node root is a fresh "/" node.
RECURSIVE EnsureDirs(_, _, _)
EnsureDirs(h, root, dirs) ==
    IF dirs = <<>> THEN h
    ELSE Let(ensure_path(h, root, Head(dirs), TRUE, <<>>),
             LAMBDA h1 : EnsureDirs(h1, root, Tail(dirs)))
RECURSIVE EnsureFiles(_, _, _)
EnsureFiles(h, root, files) ==
    IF files = <<>> THEN h
    ELSE Let(ensure_path(h, root, Head(files).path, FALSE, Head(files).content),
             LAMBDA h1 : EnsureFiles(h1, root, Tail(files)))
init_default_structure(h, root) ==
    Let(EnsureDirs(h, root, user_dirs),
        LAMBDA h1 : EnsureFiles(h1, root, default_files))

\* reset that fills in the default hierarchy on the root it finds.
resetKeepsRoot(fs) ==
    Let(init_default_structure(fs.heap, fs.root), LAMBDA h1 :
        [fs |-> [fs EXCEPT !.heap = h1, !.cwd = home, !.prev_cwd = home],
         ret |-> "None"])

reset(fs) ==
    Let(NewId(fs.heap), LAMBDA id :
    Let(init_default_structure(
            Alloc(fs.heap, id, FileNode("/", TRUE, <<>>, "user")), id),
        LAMBDA h1 :
        [fs |-> [fs EXCEPT !.heap = h1, !.root = id,
                           !.cwd = home, !.prev_cwd = home],
         ret |-> "None"]))

\* VirtualFileSystem.__init__
Unset == <<>>
NewFileSystem ==
    [heap |-> init_default_structure(
                  Alloc(<<>>, 1, FileNode("/", TRUE, <<>>, "user")), 1),
     root |-> 1, cwd |-> home, prev_cwd |-> home,
     checkpoint |-> None, checkpoint_cwd |-> Unset]

\* --------------------------------------------------- addresses and garbage
\* Objects that neither the live tree nor the checkpoint reaches are garbage
\* and are dropped; the remaining ones are renamed 1, 2, ... in the order
\* the live tree and then the checkpoint enumerate them, so that two heaps
\* that differ only in the addresses of their objects are the same state.
RECURSIVE Dedup(_, _)
Dedup(s, acc) ==
    IF s = <<>> THEN acc
    ELSE Let(IF Head(s) \in SeqRange(acc) THEN acc ELSE Append(acc, Head(s)),
             LAMBDA acc1 : Dedup(Tail(s), acc1))

Renumber(fs, ord) ==
    LET num(n) == CHOOSE i \in 1..Len(ord) : ord[i] = n IN
    [fs EXCEPT
       !.heap = [i \in 1..Len(ord) |->
                   LET n == fs.heap[ord[i]] IN
                   [n EXCEPT !.children =
                       [c \in DOMAIN n.children |-> num(n.children[c])]]],
       !.root = num(fs.root),
       !.checkpoint = IF fs.checkpoint = None THEN None ELSE num(fs.checkpoint)]

Collect(fs) ==
    Let(Dedup(Preorder(fs.heap, fs.root) \o
              (IF fs.checkpoint = None THEN <<>>
               ELSE Preorder(fs.heap, fs.checkpoint)), <<>>),
        LAMBDA ord : Renumber(fs, ord))

\* The tree below a node as a value: one entry per node, with the names on
\* the way to it, its kind and its content.
RECURSIVE Entries(_, _, _)
Entries(h, id, path) ==
    {[path |-> path, is_dir |-> h[id].is_dir, content |-> h[id].content]}
    \cup UNION {Let(h[id].children[c],
                    LAMBDA kid : Entries(h, kid, Append(path, c))) :
                   c \in DOMAIN h[id].children}

\* ------------------------------------------------------------------- state
VARIABLES heap, root, cwd, prev_cwd, checkpoint, checkpoint_cwd,
          saved,    \* history: the tree and the cwd at the last save_checkpoint
          resolved, \* history: the last bare resolve call and its result
          history,  \* Shell.history
          parse_call, \* history: the last bare _parse call and its result
          octal_call  \* history: the last bare from_octal call and its result

vars == <<heap, root, cwd, prev_cwd, checkpoint, checkpoint_cwd, saved, resolved,
          history, parse_call, octal_call>>

FS == [heap |-> heap, root |-> root, cwd |-> cwd, prev_cwd |-> prev_cwd,
       checkpoint |-> checkpoint, checkpoint_cwd |-> checkpoint_cwd]

TreeOf(fs) == Entries(fs.heap, fs.root, <<>>)
Tree       == Entries(heap, root, <<>>)
NoSaved    == [tree |-> {}, cwd |-> Unset]
NoCall     == [path |-> Unset, result |-> Unset]
NoParse    == [line |-> Unset, result |-> Unset]
NoOctal    == [called |-> FALSE, octal |-> 0, permission |-> {}]

\* ------------------------------------------------------------------ inputs
\* Path arguments of the filesystem calls: up to n pieces, each a name or
\* empty, so that "/", "/Documents", "Documents/" and "Documents/.bashrc" are
\* among them.
Pieces       == {"", "Documents", ".bashrc"}
PathsUpTo(n) == UNION {[1..k -> Pieces] : k \in 1..n}
Paths        == PathsUpTo(MaxPathLen)
ShortPaths   == PathsUpTo(1)
NamePaths    == {<<"Documents">>, <<".bashrc">>}
Contents     == {<<>>, <<"x">>}

\* Arguments of cd: the path arguments, the parent, home and "-".
CdArgs       == Paths \cup {<<"..">>, <<"~">>, <<"-">>}

\* Arguments of a bare resolve call, and the directories it is made in: home,
\* "/", "/home" and a directory below home.
ResolvePieces == {"", ".", "..", "~", "Documents", ".bashrc", "$HOME", "${USER}"}
ResolveInputs == UNION {[1..k -> ResolvePieces] : k \in 1..MaxResolveLen}
ResolveCwds   == {home, RootPath, <<"", "home">>, home \o <<"Documents">>}

\* ----------------------------------------------------------------- actions
WithinBounds(fs) ==
    /\ Cardinality(Reach(fs.heap, fs.root)) <= MaxNodes
    /\ \A i \in DOMAIN fs.heap : Len(fs.heap[i].content) <= MaxContentLen

\* The state after a call that returned or raised with result r.
Commit(r, sv) ==
    \E fs \in {IF r.fs = FS THEN FS ELSE Collect(r.fs)} :
        /\ WithinBounds(fs)
        /\ heap' = fs.heap
        /\ root' = fs.root
        /\ cwd' = fs.cwd
        /\ prev_cwd' = fs.prev_cwd
        /\ checkpoint' = fs.checkpoint
        /\ checkpoint_cwd' = fs.checkpoint_cwd
        /\ saved' = sv

Init ==
    \E fs \in {Collect(NewFileSystem)} :
        /\ heap = fs.heap
        /\ root = fs.root
        /\ cwd = fs.cwd
        /\ prev_cwd = fs.prev_cwd
        /\ checkpoint = fs.checkpoint
        /\ checkpoint_cwd = fs.checkpoint_cwd
        /\ saved = NoSaved
        /\ resolved = NoCall
        /\ history = <<>>
        /\ parse_call = NoParse
        /\ octal_call = NoOctal

CdCall(P) ==
    /\ \E p \in P \cup {<<"-">>} : Commit(cd(FS, p), saved)
    /\ UNCHANGED <<resolved, history, parse_call, octal_call>>

MkdirCall(P) ==
    /\ \E p \in P, parents \in BOOLEAN : Commit(mkdir(FS, p, parents), saved)
    /\ UNCHANGED <<resolved, history, parse_call, octal_call>>

TouchCall(P) ==
    /\ \E p \in P : Commit(touch(FS, p), saved)
    /\ UNCHANGED <<resolved, history, parse_call, octal_call>>

RmCall(P) ==
    /\ \E p \in P, recursive \in BOOLEAN, force \in BOOLEAN :
          Commit(rm(FS, p, recursive, force), saved)
    /\ UNCHANGED <<resolved, history, parse_call, octal_call>>

WriteCall(P) ==
    /\ \E p \in P, c \in Contents, append \in BOOLEAN :
          Commit(write(FS, p, c, append), saved)
    /\ UNCHANGED <<resolved, history, parse_call, octal_call>>

CpCall(P, Q) ==
    /\ \E src \in P, dst \in Q, recursive \in BOOLEAN :
          Commit(cp(FS, src, dst, recursive), saved)
    /\ UNCHANGED <<resolved, history, parse_call, octal_call>>

MvCall(P, Q) ==
    /\ \E src \in P, dst \in Q : Commit(mv(FS, src, dst), saved)
    /\ UNCHANGED <<resolved, history, parse_call, octal_call>>

SaveCall ==
    /\ Cardinality(Reach(heap, root)) <= MaxSnapshot
    /\ Commit(save_checkpoint(FS), [tree |-> Tree, cwd |-> cwd])
    /\ UNCHANGED <<resolved, history, parse_call, octal_call>>

RestoreCall ==
    /\ Commit(restore_checkpoint(FS), saved)
    /\ UNCHANGED <<resolved, history, parse_call, octal_call>>

ResetCall ==
    /\ Commit(reset(FS), saved)
    /\ UNCHANGED <<resolved, history, parse_call, octal_call>>

\* The tree under every mutating call, with the working directory at home.
Next ==
    \/ MkdirCall(Paths)
    \/ TouchCall(ShortPaths)
    \/ RmCall(Paths)
    \/ WriteCall(ShortPaths)
    \/ CpCall(NamePaths, NamePaths)
    \/ MvCall(NamePaths, NamePaths)
    \/ ResetCall

Spec == Init /\ [][Next]_vars

\* Checkpoints: save and restore among the calls that change a node in place
\* (a children dict gains or loses an entry, a content is replaced), on a
\* directory Documents and a file .bashrc, and cd into Documents and back.
NextCheckpoint ==
    \/ CdCall({<<"Documents">>})
    \/ MkdirCall({<<"Documents">>})
    \/ TouchCall({<<".bashrc">>})
    \/ RmCall(NamePaths)
    \/ WriteCall({<<".bashrc">>})
    \/ SaveCall
    \/ RestoreCall

SpecCheckpoint == Init /\ [][NextCheckpoint]_vars

\* Moving around: cd down into Documents, up with "..", back with "-" and
\* into a file, while Documents and .bashrc come and go in whatever
\* directory the cwd is, the cwd itself goes with rm on "../Documents",
\* everything goes with rm on "/" and comes back with reset.
NextCd ==
    \/ CdCall({<<"Documents">>, <<"..">>, <<".bashrc">>})
    \/ MkdirCall({<<"Documents">>})
    \/ TouchCall({<<".bashrc">>})
    \/ RmCall(NamePaths \cup {RootPath, <<"..", "Documents">>})
    \/ ResetCall

SpecCd == Init /\ [][NextCd]_vars

\* resolve on its own, called once in each of the working directories.
InitResolve ==
    \E fs \in {Collect(NewFileSystem)} :
        /\ heap = fs.heap
        /\ root = fs.root
        /\ cwd \in ResolveCwds
        /\ prev_cwd = fs.prev_cwd
        /\ checkpoint = fs.checkpoint
        /\ checkpoint_cwd = fs.checkpoint_cwd
        /\ saved = NoSaved
        /\ resolved = NoCall
        /\ history = <<>>
        /\ parse_call = NoParse
        /\ octal_call = NoOctal

\* (resolve changes nothing, so one call per behaviour loses no case)
ResolveCall ==
    \E p \in ResolveInputs :
        /\ resolved = NoCall
        /\ resolved' = [path |-> p, result |-> Resolve(FS, p)]
        /\ UNCHANGED <<heap, root, cwd, prev_cwd, checkpoint, checkpoint_cwd, saved,
                       history, parse_call, octal_call>>

NextResolve == ResolveCall

SpecResolve == InitResolve /\ [][NextResolve]_vars

TypeOK == /\ root \in DOMAIN heap
          /\ checkpoint \in DOMAIN heap \cup {None}

\* ------------------------------------------------------------- properties
IsPrefix(a, b) == Len(a) <= Len(b) /\ SubSeq(b, 1, Len(a)) = a
SnapshotTree   == Entries(heap, checkpoint, <<>>)
DefaultTree    == TreeOf(NewFileSystem)
\* The path of the first k parts of an absolute path.
Ancestor(parts, k) == Normalized(SubSeq(parts, 1, k))
\* A tree without the subtree at parts (the root entry itself always stays).
Without(tree, parts) == {e \in tree : e.path = <<>> \/ ~IsPrefix(parts, e.path)}

\* C1: once a checkpoint is saved, after whatever calls followed it,
\* restore_checkpoint succeeds and leaves the tree (names, kinds, contents)
\* and the cwd that were there at the moment of save_checkpoint.
C1_RestoreUndoesMutations ==
    checkpoint # None =>
        LET r == restore_checkpoint(FS) IN
        /\ r.ret = "True"
        /\ TreeOf(r.fs) = saved.tree
        /\ r.fs.cwd = saved.cwd

\* A checkpoint is held, the tree and the cwd have both moved away from it,
\* and restore brings both back.
C1_Witness ==
    /\ checkpoint # None
    /\ Tree # saved.tree
    /\ cwd # saved.cwd
    /\ TreeOf(restore_checkpoint(FS).fs) = saved.tree

\* C2: the checkpoint shares no node with the live tree and is never changed
\* by what happens to the live tree after a save or a restore: it always
\* holds the tree and the cwd of the moment of save_checkpoint.
C2_SnapshotIsolated ==
    checkpoint # None =>
        /\ Reach(heap, root) \cap Reach(heap, checkpoint) = {}
        /\ SnapshotTree = saved.tree
        /\ checkpoint_cwd = saved.cwd

\* A checkpoint is held while the live tree has grown beyond it inside a
\* directory that the snapshot has too.
C2_Witness ==
    /\ checkpoint # None
    /\ SnapshotTree = saved.tree
    /\ saved.tree \subseteq Tree
    /\ Cardinality(Tree) >= Cardinality(saved.tree) + 2

\* C3: resolve is idempotent: resolving the result of a resolve call again
\* gives the same path.
C3_ResolveIdempotent ==
    resolved # NoCall => ResolveIn(cwd, resolved.result) = resolved.result

\* A three-piece relative argument with a "." and a "..", resolved away from
\* home to something other than itself.
C3_Witness ==
    /\ resolved # NoCall
    /\ cwd # home
    /\ Len(resolved.path) = 3
    /\ resolved.path[1] \in {"Documents", ".bashrc"}
    /\ {".", ".."} \subseteq SeqRange(resolved.path)
    /\ resolved.result # resolved.path

\* C4: the result of resolve is absolute, has no ".", ".." or empty piece, and
\* so never names anything above "/": ".." at the root is a no-op.
C4_ResolveStaysBelowRoot ==
    resolved # NoCall =>
        LET r == resolved.result IN
        /\ StartsWithSlash(r)
        /\ r = RootPath \/ \A i \in 2..Len(r) : r[i] \notin {"", ".", ".."}
        /\ (\A i \in 1..Len(resolved.path) : resolved.path[i] = "..") =>
               IsPrefix(r, cwd) \/ r = RootPath

\* More ".." than the cwd is deep: the result is "/".
C4_Witness ==
    /\ resolved # NoCall
    /\ cwd = home
    /\ resolved.path = <<"..", "..", "..">>
    /\ resolved.result = RootPath

\* C5: for a path whose parent directory exists and that is not a directory,
\* write(p, c) succeeds and cat(p) is c afterwards; on an existing file
\* holding c1, write(p, c2, append) succeeds and cat(p) is c1 followed by c2.
C5_WriteReadRoundTrip ==
    \A p \in Paths, c \in Contents :
        /\ (GetParent(FS, p).parent # None /\ ~isdir(FS, p)) =>
               LET r == write(FS, p, c, FALSE) IN
               r.ret = "True" /\ cat(r.fs, p) = c
        /\ isfile(FS, p) =>
               LET r == write(FS, p, c, TRUE) IN
               r.ret = "True" /\ cat(r.fs, p) = cat(FS, p) \o c

\* A file that holds something, where an overwrite shortens it and an append
\* extends it.
C5_Witness ==
    \E p \in Paths :
        /\ isfile(FS, p)
        /\ cat(FS, p) = <<"x">>
        /\ cat(write(FS, p, <<>>, FALSE).fs, p) = <<>>
        /\ cat(write(FS, p, <<"x">>, TRUE).fs, p) = <<"x", "x">>

\* C6: mkdir(p) raises FileExistsError when p exists, in particular when it is
\* repeated after a successful mkdir(p); it raises PathNotFoundError when an
\* ancestor of p is missing and parents is false; a call that raises leaves
\* the whole filesystem as it was.
C6_MkdirFailures ==
    \A p \in Paths, parents \in BOOLEAN :
        LET r       == mkdir(FS, p, parents)
            parts   == SplitPath(Resolve(FS, p))
            missing == \E k \in 0..(Len(parts) - 1) : ~exists(FS, Ancestor(parts, k))
        IN  /\ exists(FS, p) => r.ret = "FileExistsError"
            /\ (missing /\ ~parents) => r.ret = "PathNotFoundError"
            /\ Raised(r) => r.fs = FS
            /\ (r.ret = "True" /\ ~parents) =>
                   \A again \in BOOLEAN :
                       LET r2 == mkdir(r.fs, p, again) IN
                       r2.ret = "FileExistsError" /\ r2.fs = r.fs

\* A directory made by an earlier mkdir, on which mkdir now fails, next to a
\* path with a missing ancestor, on which it fails the other way.
C6_Witness ==
    /\ \E p \in Paths :
          /\ isdir(FS, p)
          /\ \A e \in DefaultTree : e.path # SplitPath(Resolve(FS, p))
          /\ mkdir(FS, p, FALSE).ret = "FileExistsError"
    /\ \E q \in Paths : mkdir(FS, q, FALSE).ret = "PathNotFoundError"

\* C7: when mkdir(p, parents=True) returns True, resolve(p) and each of its
\* ancestors is an existing directory afterwards.
C7_MkdirParentsMakesChain ==
    \A p \in Paths :
        LET r     == mkdir(FS, p, TRUE)
            parts == SplitPath(Resolve(FS, p))
        IN  r.ret = "True" =>
                \A k \in 0..Len(parts) : isdir(r.fs, Ancestor(parts, k))

\* C8: every node of the tree that is a file has an empty children dict.
C8_FilesHaveNoChildren ==
    \A i \in Reach(heap, root) :
        ~heap[i].is_dir => DOMAIN heap[i].children = {}

\* C9: rm raises IsADirectoryError on a directory without recursive, whatever
\* force is; on a missing path it raises PathNotFoundError without force and
\* returns True with force, changing nothing; a call that raises changes
\* nothing; a call that succeeds on an existing path removes the subtree at
\* that path and nothing else (of "/", everything below the root).
C9_RmOutcomes ==
    \A p \in Paths, recursive \in BOOLEAN, force \in BOOLEAN :
        LET r     == rm(FS, p, recursive, force)
            parts == SplitPath(Resolve(FS, p))
        IN  /\ (isdir(FS, p) /\ ~recursive) => r.ret = "IsADirectoryError"
            /\ (~exists(FS, p) /\ ~force) => r.ret = "PathNotFoundError"
            /\ (~exists(FS, p) /\ force) => (r.ret = "True" /\ r.fs = FS)
            /\ Raised(r) => r.fs = FS
            /\ (exists(FS, p) /\ ~Raised(r)) =>
                   /\ r.ret = "True"
                   /\ TreeOf(r.fs) = Without(Tree, parts)
                   /\ r.fs.cwd = cwd /\ r.fs.prev_cwd = prev_cwd

\* A directory with something in it: rm without recursive raises with either
\* force, rm with recursive takes the directory and its entry away.
C9_Witness ==
    \E p \in Paths :
        /\ isdir(FS, p)
        /\ IsPrefix(home, Resolve(FS, p)) /\ Resolve(FS, p) # home
        /\ DOMAIN heap[GetNode(FS, p)].children # {}
        /\ rm(FS, p, FALSE, TRUE).ret = "IsADirectoryError"
        /\ Cardinality(TreeOf(rm(FS, p, TRUE, FALSE).fs)) <= Cardinality(Tree) - 2

\* C10: rm with recursive on a path that resolves to "/" returns True and
\* leaves the same root node, a directory without children; repeating the
\* call returns True again and changes nothing more.
C10_RmRootIdempotent ==
    \A p \in Paths, force \in BOOLEAN :
        Resolve(FS, p) = RootPath =>
            LET r  == rm(FS, p, TRUE, force)
                r2 == rm(r.fs, p, TRUE, force)
            IN  /\ r.ret = "True"
                /\ r.fs.root = root
                /\ r.fs.heap[root].is_dir
                /\ r.fs.heap[root].children = EmptyDict
                /\ TreeOf(r.fs) = {[path |-> <<>>, is_dir |-> TRUE, content |-> <<>>]}
                /\ r2 = r

\* The root is already empty, the cwd is gone with it, and rm -r on a path
\* that resolves to "/" succeeds once more.
C10_Witness ==
    /\ heap[root].children = EmptyDict
    /\ ~exists(FS, cwd)
    /\ \E p \in Paths :
          Resolve(FS, p) = RootPath /\ rm(FS, p, TRUE, FALSE).ret = "True"

\* The subtree below a node as a value, its own name left out.
Subtree(fs, n) == Entries(fs.heap, n, <<>>)

\* The path at which cp and mv put the node of src: inside dst when dst is a
\* directory, at dst otherwise.
Destination(fs, src, dst) ==
    IF isdir(fs, dst)
    THEN Resolve(fs, dst) \o PathPieces(fs.heap[GetNode(fs, src)].name)
    ELSE Resolve(fs, dst)

\* C11: a cp that succeeds leaves the subtree of the source node as it was and
\* puts a copy at the destination that shares no node with it; cp of a
\* directory without recursive raises IsADirectoryError and changes nothing.
C11_CpDeepClones ==
    \A src \in Paths, dst \in Paths, recursive \in BOOLEAN :
        LET r == cp(FS, src, dst, recursive)
            s == GetNode(FS, src)
        IN  /\ (isdir(FS, src) /\ ~recursive) =>
                   (r.ret = "IsADirectoryError" /\ r.fs = FS)
            /\ r.ret = "True" =>
                   LET c == GetNode(r.fs, Destination(FS, src, dst)) IN
                   /\ Subtree(r.fs, s) = Subtree(FS, s)
                   /\ c # None
                   /\ Subtree(r.fs, c) = Subtree(FS, s)
                   /\ Reach(r.fs.heap, c) \cap Reach(r.fs.heap, s) = {}

\* C12: when mv of an existing src returns True, the destination holds the
\* subtree that src held, and every entry of the tree that lies neither
\* below src nor below the destination is still there.
C12_MvMoves ==
    \A src \in Paths, dst \in Paths :
        LET r == mv(FS, src, dst)
            s == GetNode(FS, src)
            D == SplitPath(Destination(FS, src, dst))
        IN  (s # None /\ r.ret = "True") =>
                LET d == GetNode(r.fs, Normalized(D)) IN
                /\ d # None
                /\ Subtree(r.fs, d) = Subtree(FS, s)
                /\ \A e \in Tree :
                       (~IsPrefix(SplitPath(Resolve(FS, src)), e.path)
                            /\ ~IsPrefix(D, e.path)) => e \in TreeOf(r.fs)

\* C13: touch on an existing path returns True and changes no node (the
\* modified timestamp is outside the model); on a missing path whose parent
\* is an existing directory it returns True and adds exactly one empty file
\* there; on a missing path without such a parent it raises
\* PathNotFoundError and changes nothing.
C13_TouchOutcomes ==
    \A p \in Paths :
        LET r     == touch(FS, p)
            parts == SplitPath(Resolve(FS, p))
        IN  /\ exists(FS, p) => (r.ret = "True" /\ r.fs = FS)
            /\ (~exists(FS, p) /\ GetParent(FS, p).parent # None) =>
                   /\ r.ret = "True"
                   /\ isfile(r.fs, p)
                   /\ cat(r.fs, p) = <<>>
                   /\ TreeOf(r.fs) =
                          Tree \cup {[path |-> parts, is_dir |-> FALSE, content |-> <<>>]}
            /\ (~exists(FS, p) /\ GetParent(FS, p).parent = None) =>
                   (r.ret = "PathNotFoundError" /\ r.fs = FS)

\* A file that holds something and a directory, both left alone by touch,
\* next to a free name that touch can create and a path below a missing
\* directory where it cannot.
C13_Witness ==
    /\ \E p \in Paths :
          isfile(FS, p) /\ cat(FS, p) # <<>> /\ cat(touch(FS, p).fs, p) = cat(FS, p)
    /\ \E p \in Paths :
          ~exists(FS, p) /\ isfile(touch(FS, p).fs, p)
    /\ \E p \in Paths :
          Len(p) = 2 /\ touch(FS, p).ret = "PathNotFoundError"

\* PwdCommand.execute: the text pwd prints.
pwd(fs) == fs.cwd

\* The directory cd(path) aims at.
CdTarget(fs, path) == IF path = <<"-">> THEN fs.prev_cwd ELSE Resolve(fs, path)

\* C14: when the target of cd (for "-", the stored previous cwd) is missing
\* or is not a directory, cd returns False and cwd, previous cwd and the tree
\* are as before.
C14_FailingCdIsNoOp ==
    \A p \in CdArgs :
        ~isdir(FS, CdTarget(FS, p)) =>
            LET r == cd(FS, p) IN r.ret = "False" /\ r.fs = FS

\* Away from home, with the previous cwd removed and a file in the cwd: cd
\* fails on "-", on the file and on a missing name.
C14_Witness ==
    /\ cwd # home
    /\ ~exists(FS, prev_cwd)
    /\ cd(FS, <<"-">>).ret = "False"
    /\ \E p \in Paths : isfile(FS, p) /\ cd(FS, p).ret = "False"
    /\ \E p \in Paths : ~exists(FS, p) /\ cd(FS, p).ret = "False"

\* C15: a cd that succeeds sets cwd to the resolved path (for "-", to the
\* stored previous cwd) and previous cwd to the cwd it left, and leaves the
\* tree alone; a second successful cd("-") right after a first brings both
\* cwd and previous cwd back.
C15_CdSetsCwdAndPrevious ==
    \A p \in CdArgs :
        LET r == cd(FS, p) IN
        r.ret = "True" =>
            /\ r.fs.cwd = CdTarget(FS, p)
            /\ r.fs.prev_cwd = cwd
            /\ r.fs.heap = heap /\ r.fs.root = root
            /\ p = <<"-">> =>
                   LET r2 == cd(r.fs, <<"-">>) IN
                   r2.ret = "True" => (r2.fs.cwd = cwd /\ r2.fs.prev_cwd = prev_cwd)

\* cwd and previous cwd differ and both exist, so that cd("-") swaps them
\* and a second one swaps them back.
C15_Witness ==
    /\ cwd # prev_cwd
    /\ cd(FS, <<"-">>).ret = "True"
    /\ cd(FS, <<"-">>).fs.cwd = prev_cwd
    /\ cd(cd(FS, <<"-">>).fs, <<"-">>).fs.cwd = cwd

Lower(cs) == [i \in DOMAIN cs |-> IF cs[i] \in 65..90 THEN cs[i] + 32 ELSE cs[i]]

\* a < b on strings: lexicographic on code points
RECURSIVE StrLess(_, _)
StrLess(a, b) ==
    IF b = <<>> THEN FALSE
    ELSE IF a = <<>> THEN TRUE
    ELSE IF Head(a) # Head(b) THEN Head(a) < Head(b)
    ELSE StrLess(Tail(a), Tail(b))

\* name.startswith(".")
Hidden(name) == Chars(name)[1] = 46

\* (flag, string) < (flag, string) as Python compares tuples, False < True.
TupleLess(a, b) ==
    \/ ~a[1] /\ b[1]
    \/ a[1] = b[1] /\ StrLess(a[2], b[2])

\* The sort key of ls: (not is_dir, name.lower())
LsKey(e) == <<~e.is_dir, Lower(Chars(e.name))>>

\* The key with the name as it is.
RawKey(e) == <<~e.is_dir, Chars(e.name)>>

\* sorted(S, key=...), key a function on S that is different for different
\* elements (no two names of the model are equal up to case).
RECURSIVE SortedBy(_, _)
SortedBy(S, key) ==
    IF S = {} THEN <<>>
    ELSE Let(CHOOSE x \in S : \A y \in S \ {x} : ~TupleLess(key[y], key[x]),
             LAMBDA m : <<m>> \o SortedBy(S \ {m}, key))

\* The loop of ls and ls_detailed over node.children: one record per entry
\* that is not filtered out.  (Of the fields of an ls_detailed entry, the
\* permission string and the modified timestamp are left out.)
Listed(fs, node, show_hidden) ==
    {[name   |-> n,
      is_dir |-> fs.heap[fs.heap[node].children[n]].is_dir,
      owner  |-> fs.heap[fs.heap[node].children[n]].owner,
      group  |-> fs.heap[fs.heap[node].children[n]].group,
      size   |-> IF fs.heap[fs.heap[node].children[n]].is_dir THEN 4096
                 ELSE fs.heap[fs.heap[node].children[n]].size] :
        n \in {c \in DOMAIN fs.heap[node].children : show_hidden \/ ~Hidden(c)}}

Pair(e) == <<e.name, e.is_dir>>

\* ls that sorts the names as they are, upper case before lower case.
lsCaseSensitive(fs, path, show_hidden) ==
    Let(GetNode(fs, IF path # EmptyStr THEN Resolve(fs, path) ELSE fs.cwd), LAMBDA node :
        IF node = None THEN "PathNotFoundError"
        ELSE IF ~fs.heap[node].is_dir THEN << <<fs.heap[node].name, FALSE>> >>
        ELSE Let(Listed(fs, node, show_hidden), LAMBDA S :
             Let(SortedBy(S, [e \in S |-> RawKey(e)]), LAMBDA l :
                 [i \in DOMAIN l |-> Pair(l[i])])))

\* ls: the list of (name, is_dir), or the name of the exception.
ls(fs, path, show_hidden) ==
    Let(GetNode(fs, IF path # EmptyStr THEN Resolve(fs, path) ELSE fs.cwd), LAMBDA node :
        IF node = None THEN "PathNotFoundError"
        ELSE IF ~fs.heap[node].is_dir THEN << <<fs.heap[node].name, FALSE>> >>
        ELSE Let(Listed(fs, node, show_hidden), LAMBDA S :
             Let(SortedBy(S, [e \in S |-> LsKey(e)]), LAMBDA l :
                 [i \in DOMAIN l |-> Pair(l[i])])))

\* ls_detailed: the list of entry records, or the name of the exception.
ls_detailed(fs, path, show_hidden) ==
    Let(GetNode(fs, IF path # EmptyStr THEN Resolve(fs, path) ELSE fs.cwd), LAMBDA node :
        IF node = None THEN "PathNotFoundError"
        ELSE IF ~fs.heap[node].is_dir
        THEN << [name |-> fs.heap[node].name, is_dir |-> FALSE,
                 owner |-> fs.heap[node].owner, group |-> fs.heap[node].group,
                 size |-> fs.heap[node].size] >>
        ELSE Let(Listed(fs, node, show_hidden), LAMBDA S :
                 SortedBy(S, [e \in S |-> LsKey(e)])))

\* Entries of "/" that come and go: two directories' worth of names whose
\* order depends on the case, and a hidden one.
LsNames == {"Documents", "bin", "Music", ".bashrc"}
LsPaths == {<<"", n>> : n \in LsNames}
LsArgs  == LsPaths \cup {RootPath, EmptyStr}

NextLs ==
    \/ MkdirCall(LsPaths)
    \/ TouchCall(LsPaths)
    \/ RmCall(LsPaths \cup {RootPath})

SpecLs == Init /\ [][NextLs]_vars

C18_ResetGivesDefault ==
    LET r == reset(FS) IN
    /\ TreeOf(r.fs) = DefaultTree
    /\ Reach(r.fs.heap, r.fs.root) \cap Reach(heap, root) = {}
    /\ \A i \in Reach(r.fs.heap, r.fs.root) :
           \E j \in Reach(NewFileSystem.heap, NewFileSystem.root) :
               [r.fs.heap[i] EXCEPT !.children = DOMAIN @] =
               [NewFileSystem.heap[j] EXCEPT !.children = DOMAIN @]
    /\ r.fs.cwd = home
    /\ r.fs.prev_cwd = home

\* After rm -r on "/" from a cwd other than home: the root is empty, and a
\* reset brings the home directory back.
C18_Witness ==
    /\ heap[root].children = EmptyDict
    /\ cwd # home
    /\ prev_cwd # home
    /\ isdir(reset(FS).fs, home)

\* ----------------------------------------------------------- serialization
\* to_dict that writes an empty content for every node.
RECURSIVE to_dictEmptyContent(_, _)
to_dictEmptyContent(h, id) ==
    [name        |-> h[id].name,
     is_dir      |-> h[id].is_dir,
     content     |-> <<>>,
     children    |-> [c \in DOMAIN h[id].children |->
                         Let(h[id].children[c], LAMBDA kid : to_dictEmptyContent(h, kid))],
     permissions |-> to_octal(h[id].permissions),
     owner       |-> h[id].owner,
     group       |-> h[id].group]

\* FileNode.to_dict
RECURSIVE to_dict(_, _)
to_dict(h, id) ==
    [name        |-> h[id].name,
     is_dir      |-> h[id].is_dir,
     content     |-> IF ~h[id].is_dir THEN h[id].content ELSE <<>>,
     children    |-> [c \in DOMAIN h[id].children |->
                         Let(h[id].children[c], LAMBDA kid : to_dict(h, kid))],
     permissions |-> to_octal(h[id].permissions),
     owner       |-> h[id].owner,
     group       |-> h[id].group]

\* FileNode.from_dict: the node as a value, its children dict holding the
\* child nodes themselves.
RECURSIVE from_dict(_)
from_dict(data) ==
    [FileNodeWith(data.name, data.is_dir, data.content,
                  from_octal(data.permissions), data.owner, data.group)
       EXCEPT !.children = [c \in DOMAIN data.children |-> from_dict(data.children[c])]]

\* to_json and from_json; the JSON text is represented by the document it
\* encodes (strings, booleans, integers and objects keyed by strings, which
\* json.dumps and json.loads carry over unchanged).
to_json(fs) ==
    [username |-> username, hostname |-> hostname, cwd |-> fs.cwd,
     root |-> to_dict(fs.heap, fs.root)]

from_json(data) ==
    [username |-> data.username, hostname |-> data.hostname, cwd |-> data.cwd,
     root |-> from_dict(data.root)]

\* A node read back is the node of the heap in name, kind, content,
\* permissions, owner and group, and so is each of its children.
RECURSIVE SameNode(_, _, _)
SameNode(v, h, id) ==
    /\ v.name = h[id].name
    /\ v.is_dir = h[id].is_dir
    /\ v.content = h[id].content
    /\ v.permissions = h[id].permissions
    /\ v.owner = h[id].owner
    /\ v.group = h[id].group
    /\ DOMAIN v.children = DOMAIN h[id].children
    /\ \A c \in DOMAIN v.children : SameNode(v.children[c], h, h[id].children[c])

\* C19: from_json(to_json(fs)) has the username, the hostname and the cwd of
\* fs and a tree with the same structure, names, kinds, contents,
\* permissions, owners and groups.
C19_SerializationLossless ==
    LET g == from_json(to_json(FS)) IN
    /\ g.username = username
    /\ g.hostname = hostname
    /\ g.cwd = cwd
    /\ SameNode(g.root, heap, root)

\* A tree with a directory and a file that holds something, both read back.
C19_Witness ==
    /\ \E p \in Paths : isfile(FS, p) /\ cat(FS, p) # <<>>
    /\ \E p \in Paths : isdir(FS, p) /\ Len(SplitPath(Resolve(FS, p))) = 3
    /\ SameNode(from_json(to_json(FS)).root, heap, root)

\* ------------------------------------------------------------------- shell
\* A command line is the sequence of its atoms: a space, "|", ">", a single
\* or a double quote, each one character, or a word, a run of other
\* characters that no operation of the shell looks into.  The string is the
\* atoms one after the other, so ">>" is two ">" atoms.
Space == " "
SQuote == "'"
DQuote == "\""
Quotes == {SQuote, DQuote}
AtomSeqs(A, n) == UNION {[1..k -> A] : k \in 0..n}

\* str.strip()
RECURSIVE LStrip(_)
LStrip(s) == IF s # <<>> /\ Head(s) = Space THEN LStrip(Tail(s)) ELSE s
RECURSIVE RStrip(_)
RStrip(s) == IF s # <<>> /\ Last(s) = Space THEN RStrip(Front(s)) ELSE s
Strip(s) == RStrip(LStrip(s))

\* The places where sub starts in s; sub in s; s.split(sub, 1)
Occurrences(s, sub) ==
    {i \in 1..(Len(s) - Len(sub) + 1) : SubSeq(s, i, i + Len(sub) - 1) = sub}
Contains(s, sub) == Occurrences(s, sub) # {}
SplitOnce(s, sub) ==
    Let(CHOOSE i \in Occurrences(s, sub) : \A j \in Occurrences(s, sub) : i <= j,
        LAMBDA i : <<SubSeq(s, 1, i - 1), SubSeq(s, i + Len(sub), Len(s))>>)

\* shlex.split(s): the loop over the characters.  A token is the sequence of
\* the atoms it is made of; started tells a token has begun (a pair of
\* quotes with nothing between them is an empty token), quote is the open
\* quote or "".
RECURSIVE ShlexLoop(_, _, _, _, _)
ShlexLoop(s, tokens, token, started, quote) ==
    IF s = <<>>
    THEN IF quote # "" THEN [raised |-> "ValueError", tokens |-> <<>>]
         ELSE [raised |-> "",
               tokens |-> IF started THEN Append(tokens, token) ELSE tokens]
    ELSE IF quote # ""
    THEN IF Head(s) = quote THEN ShlexLoop(Tail(s), tokens, token, TRUE, "")
         ELSE ShlexLoop(Tail(s), tokens, Append(token, Head(s)), TRUE, quote)
    ELSE IF Head(s) = Space
    THEN ShlexLoop(Tail(s), IF started THEN Append(tokens, token) ELSE tokens,
                   <<>>, FALSE, "")
    ELSE IF Head(s) \in Quotes THEN ShlexLoop(Tail(s), tokens, token, TRUE, Head(s))
    ELSE ShlexLoop(Tail(s), tokens, Append(token, Head(s)), TRUE, "")

shlex_split(s) == ShlexLoop(s, <<>>, <<>>, FALSE, "")

\* ParsedCommand: name and each of args is a token, stdout_file the atoms of
\* the target (<<>> for None as for the empty string, neither of which
\* redirects), pipe_to is <<>> for None and <<p>> for a command p.
ParsedCommand(name, args, stdout_file, stdout_append) ==
    [name |-> name, args |-> args, stdout_file |-> stdout_file,
     stdout_append |-> stdout_append, pipe_to |-> <<>>]

\* _parse with the test for ">" before the test for ">>".
SplitRedirectPlainFirst(command_line) ==
    IF Contains(command_line, <<">">>)
    THEN Let(SplitOnce(command_line, <<">">>), LAMBDA parts :
             [command_line |-> Strip(parts[1]), stdout_file |-> Strip(parts[2]),
              stdout_append |-> FALSE])
    ELSE [command_line |-> command_line, stdout_file |-> <<>>, stdout_append |-> FALSE]

\* The redirect part of _parse: the command, the target and the append flag.
SplitRedirect(command_line) ==
    IF Contains(command_line, <<">", ">">>)
    THEN Let(SplitOnce(command_line, <<">", ">">>), LAMBDA parts :
             [command_line |-> Strip(parts[1]), stdout_file |-> Strip(parts[2]),
              stdout_append |-> TRUE])
    ELSE IF Contains(command_line, <<">">>)
    THEN Let(SplitOnce(command_line, <<">">>), LAMBDA parts :
             [command_line |-> Strip(parts[1]), stdout_file |-> Strip(parts[2]),
              stdout_append |-> FALSE])
    ELSE [command_line |-> command_line, stdout_file |-> <<>>, stdout_append |-> FALSE]

\* Shell._parse; depth counts the _parse calls that are open, and a call
\* beyond RecursionLimit is the interpreter's RecursionError.
RECURSIVE parse(_, _)
parse(command_line, depth) ==
    IF depth > RecursionLimit THEN [raised |-> "RecursionError"]
    ELSE IF Contains(command_line, <<"|">>)
    THEN Let(SplitOnce(command_line, <<"|">>), LAMBDA parts :
         Let(parse(Strip(parts[1]), depth + 1), LAMBDA left :
             IF left.raised # "" THEN left
             ELSE Let(parse(Strip(parts[2]), depth + 1), LAMBDA right :
                  IF right.raised # "" THEN right
                  ELSE [raised |-> "",
                        parsed |-> [left.parsed EXCEPT !.pipe_to = <<right.parsed>>]])))
    ELSE Let(SplitRedirect(command_line), LAMBDA r :
         Let(shlex_split(r.command_line), LAMBDA t :
             IF t.raised # "" THEN [raised |-> t.raised]
             ELSE IF t.tokens = <<>>
             THEN [raised |-> "", parsed |-> ParsedCommand(<<>>, <<>>, <<>>, FALSE)]
             ELSE [raised |-> "",
                   parsed |-> ParsedCommand(Head(t.tokens), Tail(t.tokens),
                                            r.stdout_file, r.stdout_append)]))

\* The lines given to a bare _parse call.
ParseAtoms == {"echo", "a", Space, "|", ">", DQuote}
ParseLines == AtomSeqs(ParseAtoms, MaxLineLen)

InitParse ==
    /\ Init
    /\ parse_call = NoParse

\* (_parse changes nothing, so one call per behaviour loses no case)
ParseCall ==
    \E l \in ParseLines :
        /\ parse_call = NoParse
        /\ octal_call = NoOctal
        /\ parse_call' = [line |-> l, result |-> parse(l, 1)]
        /\ UNCHANGED <<heap, root, cwd, prev_cwd, checkpoint, checkpoint_cwd, saved,
                       resolved, history, octal_call>>

NextParse == ParseCall

SpecParse == InitParse /\ [][NextParse]_vars

\* The quote that is open just before atom i of s ("" for none).
RECURSIVE QuoteBefore(_, _)
QuoteBefore(s, i) ==
    IF i = 1 THEN ""
    ELSE Let(QuoteBefore(s, i - 1), LAMBDA q :
             IF q = "" THEN (IF s[i - 1] \in Quotes THEN s[i - 1] ELSE "")
             ELSE IF s[i - 1] = q THEN "" ELSE q)

\* The places of s with a "|" outside quotes.
UnquotedPipes(s) == {i \in 1..Len(s) : s[i] = "|" /\ QuoteBefore(s, i) = ""}

\* C26: a line is split at the first "|" that is outside quotes, the right
\* half parsed on its own; without such a "|" the line is one stage, and a
\* "|" inside quotes is part of its token.
C26_SplitsAtUnquotedPipe ==
    parse_call # NoParse =>
        LET l == parse_call.line
            r == parse_call.result
            closed == QuoteBefore(l, Len(l) + 1) = ""
        IN  /\ closed /\ UnquotedPipes(l) = {} /\ ~Contains(l, <<">">>) =>
                /\ r.raised = ""
                /\ r.parsed.pipe_to = <<>>
                /\ \/ <<r.parsed.name>> \o r.parsed.args = shlex_split(l).tokens
                   \/ (shlex_split(l).tokens = <<>> /\ r.parsed.name = <<>>)
            /\ closed /\ UnquotedPipes(l) # {} /\ r.raised = "" =>
                LET i == CHOOSE i \in UnquotedPipes(l) : \A j \in UnquotedPipes(l) : i <= j
                IN  r.parsed.pipe_to = <<parse(Strip(SubSeq(l, i + 1, Len(l))), 2).parsed>>

\* C27: in a segment with ">>" the command is the text before the first
\* ">>", the target the whole text after it and append is true; in a segment
\* with ">" and no ">>" the same holds for the first ">" with append false.
C27_AppendCheckedBeforeTruncate ==
    parse_call # NoParse /\ ~Contains(parse_call.line, <<"|">>)
    /\ parse_call.result.raised = "" =>
        LET l == parse_call.line
            r == parse_call.result.parsed
            append == \E i \in 1..(Len(l) - 1) : l[i] = ">" /\ l[i + 1] = ">"
            op == IF append THEN 2 ELSE 1
            at(i) == /\ l[i] = ">"
                     /\ append => i < Len(l) /\ l[i + 1] = ">"
                     /\ \A j \in 1..(i - 1) :
                           ~(l[j] = ">" /\ (append => l[j + 1] = ">"))
        IN  \A i \in 1..Len(l) :
                at(i) /\ shlex_split(SubSeq(l, 1, i - 1)).tokens # <<>> =>
                    /\ <<r.name>> \o r.args = shlex_split(SubSeq(l, 1, i - 1)).tokens
                    /\ r.stdout_file = Strip(SubSeq(l, i + op, Len(l)))
                    /\ r.stdout_append = append

\* "echo>>a": a command, the append sign and a target, parsed.
C27_Witness ==
    /\ parse_call # NoParse
    /\ parse_call.line = <<"echo", ">", ">", "a">>
    /\ parse_call.result.raised = ""
    /\ parse_call.result.parsed.stdout_append
    /\ parse_call.result.parsed.stdout_file = <<"a">>

\* --------------------------------------------------------------- commands
\* A text (an output, an error message, a file content) is the sequence of
\* the pieces it is made of, atoms of the line among them.
\* CommandResult.ok, CommandResult.fail and CommandResult.clear; raised is
\* the exception that left the call instead of a result, "" when there is a
\* result.
ok(output) == [raised |-> "", success |-> TRUE, output |-> output, error |-> <<>>,
               clear_screen |-> FALSE]

\* fail with the text on the output side.
failAsOutput(error) ==
    [raised |-> "", success |-> FALSE, output |-> error, error |-> <<>>,
     clear_screen |-> FALSE]

fail(error) == [raised |-> "", success |-> FALSE, output |-> <<>>, error |-> error,
                clear_screen |-> FALSE]

clear == [raised |-> "", success |-> TRUE, output |-> <<>>, error |-> <<>>,
          clear_screen |-> TRUE]
raise(exc) == [raised |-> exc, success |-> FALSE, output |-> <<>>, error |-> <<>>,
               clear_screen |-> FALSE]

\* The registered commands of the model, their aliases and their argument
\* counts (NoMax for max_args = None).
Commands == {"pwd", "touch", "find", "echo", "cat", "clear"}
Aliases == [a \in {"cls"} |-> "clear"]
NotFound == ""
NoMax == -1
min_args(cmd) == IF cmd \in {"touch", "cat"} THEN 1 ELSE 0
max_args(cmd) == IF cmd \in {"pwd", "clear"} THEN 0 ELSE NoMax

\* A registry in which every name finds the command "pwd".
registry_getAnyName(name) == "pwd"

\* CommandRegistry.get for a name token: aliases first.  (A token of more
\* than one atom is no word of the registry.)
registry_get(name) ==
    IF Len(name) # 1 THEN NotFound
    ELSE IF name[1] \in DOMAIN Aliases THEN Aliases[name[1]]
    ELSE IF name[1] \in Commands THEN name[1]
    ELSE NotFound

\* validate_args that never objects.
validate_argsNever(cmd, args) == <<>>

\* BaseCommand.validate_args; <<>> for None
validate_args(cmd, args) ==
    IF Len(args) < min_args(cmd) THEN <<cmd, ": missing operand">>
    ELSE IF max_args(cmd) # NoMax /\ Len(args) > max_args(cmd)
    THEN <<cmd, ": too many arguments">>
    ELSE <<>>

\* A path string as text: "/".join of the pieces, the empty ones giving no
\* text.
RECURSIVE JoinSlash(_)
JoinSlash(pieces) ==
    IF Len(pieces) = 1 THEN (IF pieces[1] = "" THEN <<>> ELSE pieces)
    ELSE (IF pieces[1] = "" THEN <<>> ELSE <<pieces[1]>>) \o <<"/">> \o JoinSlash(Tail(pieces))

\* sep.join(texts)
RECURSIVE Join(_, _)
Join(sep, texts) ==
    IF texts = <<>> THEN <<>>
    ELSE IF Len(texts) = 1 THEN texts[1]
    ELSE texts[1] \o <<sep>> \o Join(sep, Tail(texts))

\* The path of an argument or a redirect target: the path arguments of the
\* model are one atom or empty, and no atom holds a "/".
ArgPath(text) == IF text = <<>> THEN EmptyStr ELSE <<text[1]>>

\* arg.startswith("-"): the option words of the model
StartsWithDash(arg) ==
    arg # <<>> /\ arg[1] \in {"-n", "-e", "-ne", "-en", "--number"}

\* PwdCommand.execute
PwdExecute(fs, args) == [fs |-> fs, res |-> ok(JoinSlash(pwd(fs)))]

\* ClearCommand.execute
ClearExecute(fs, args) == [fs |-> fs, res |-> clear]

\* TouchCommand.execute: the loop over the arguments and its result.
RECURSIVE TouchLoop(_, _, _)
TouchLoop(fs, args, errors) ==
    IF args = <<>> THEN [fs |-> fs, errors |-> errors]
    ELSE Let(touch(fs, ArgPath(Head(args))), LAMBDA r :
         Let(IF Raised(r)
             THEN Append(errors, <<"touch: '">> \o Head(args) \o <<"': ", r.ret>>)
             ELSE errors,
             LAMBDA errors1 : TouchLoop(r.fs, Tail(args), errors1)))

TouchExecute(fs, args) ==
    Let(TouchLoop(fs, args, <<>>), LAMBDA l :
        [fs |-> l.fs,
         res |-> IF l.errors # <<>> THEN fail(Join("\n", l.errors)) ELSE ok(<<>>)])

\* FindCommand._find_recursive without filters: the display paths found, or
\* the AttributeError of node.name when _get_node gave None.
RECURSIVE find_recursive(_, _, _)
find_recursive(fs, abs_path, display_path) ==
    Let(GetNode(fs, abs_path), LAMBDA node :
        IF node = None THEN [raised |-> TRUE, results |-> {}]
        ELSE IF ~fs.heap[node].is_dir
        THEN [raised |-> FALSE, results |-> {display_path}]
        ELSE Let({find_recursive(fs, Append(abs_path, c), Append(display_path, c)) :
                     c \in {n \in DOMAIN fs.heap[node].children : ~Hidden(n)}},
                 LAMBDA subs :
                 [raised |-> \E f \in subs : f.raised,
                  results |-> {display_path} \cup UNION {f.results : f \in subs}]))

\* FindCommand.execute with arguments that are no options: the last one is
\* the directory searched.
FindExecute(fs, args) ==
    Let(IF args = <<>> THEN "." ELSE ArgPath(Last(args))[1], LAMBDA search_dir :
    Let(find_recursive(fs, Resolve(fs, <<search_dir>>), <<search_dir>>), LAMBDA f :
        IF f.raised THEN [fs |-> fs, res |-> raise("AttributeError")]
        ELSE Let(SortedBy(f.results,
                          [d \in f.results |-> <<FALSE, TextChars(JoinSlash(d))>>]),
                 LAMBDA sorted :
                 [fs |-> fs,
                  res |-> ok(Join("\n", [i \in DOMAIN sorted |-> JoinSlash(sorted[i])]))])))

\* EchoCommand.execute: the loop over the arguments gives the text parts (of
\* the flags only interpret_escapes is read afterwards).
RECURSIVE EchoLoop(_, _, _)
EchoLoop(args, interpret_escapes, text_parts) ==
    IF args = <<>> THEN [interpret_escapes |-> interpret_escapes, text_parts |-> text_parts]
    ELSE IF Head(args) = <<"-n">> /\ text_parts = <<>>
    THEN EchoLoop(Tail(args), interpret_escapes, text_parts)
    ELSE IF Head(args) = <<"-e">> /\ text_parts = <<>>
    THEN EchoLoop(Tail(args), TRUE, text_parts)
    ELSE IF Head(args) \in {<<"-ne">>, <<"-en">>}
    THEN EchoLoop(Tail(args), TRUE, text_parts)
    ELSE EchoLoop(Tail(args), interpret_escapes, Append(text_parts, Head(args)))

\* text.replace of the four variables, a variable being an atom of its own.
RECURSIVE ExpandEcho(_, _)
ExpandEcho(fs, text) ==
    IF text = <<>> THEN <<>>
    ELSE (CASE Head(text) = "$HOME"     -> JoinSlash(home)
            [] Head(text) = "$USER"     -> <<username>>
            [] Head(text) = "$PWD"      -> JoinSlash(fs.cwd)
            [] Head(text) = "$HOSTNAME" -> <<hostname>>
            [] OTHER                    -> <<Head(text)>>)
         \o ExpandEcho(fs, Tail(text))

\* The surrounding quotes of a text are taken away.  (No atom of the model
\* holds a backslash, so interpreting the escapes changes no text.)
Unquote(text) ==
    IF Len(text) >= 2 /\ Head(text) \in Quotes /\ Last(text) = Head(text)
    THEN SubSeq(text, 2, Len(text) - 1)
    ELSE text

EchoExecute(fs, args) ==
    Let(EchoLoop(args, FALSE, <<>>), LAMBDA l :
        [fs |-> fs, res |-> ok(Unquote(ExpandEcho(fs, Join(Space, l.text_parts))))])

\* content.split("\n") without a trailing empty line
RECURSIVE SplitLines(_, _)
SplitLines(content, line) ==
    IF content = <<>> THEN (IF line = <<>> THEN <<>> ELSE <<line>>)
    ELSE IF Head(content) = "\n" THEN <<line>> \o SplitLines(Tail(content), <<>>)
    ELSE SplitLines(Tail(content), Append(line, Head(content)))

\* f"  {line_num:4d}  {line}"
Numbered(line_num, line) ==
    <<"  ", CASE line_num < 10 -> "   " [] line_num < 100 -> "  "
               [] line_num < 1000 -> " " [] OTHER -> "",
      ToString(line_num), "  ">> \o line

\* CatCommand.execute: the loop over the files.
RECURSIVE CatFiles(_, _, _, _)
CatFiles(fs, files, show_numbers, output_lines) ==
    IF files = <<>> THEN ok(Join("\n", output_lines))
    ELSE IF Resolve(fs, ArgPath(Head(files))) = <<"", "etc", "shadow">>
    THEN fail(<<"cat: /etc/shadow: Izin reddedildi">>)
    ELSE Let(GetNode(fs, Resolve(fs, ArgPath(Head(files)))), LAMBDA node :
         IF node = None
         THEN fail(<<"cat: ">> \o Head(files) \o <<": Boyle bir dosya ya da dizin yok">>)
         ELSE IF fs.heap[node].is_dir
         THEN fail(<<"cat: ">> \o Head(files) \o <<": Bir dizin">>)
         ELSE Let(SplitLines(cat(fs, ArgPath(Head(files))), <<>>), LAMBDA lines :
              CatFiles(fs, Tail(files), show_numbers,
                       output_lines \o
                       [i \in DOMAIN lines |->
                           IF show_numbers THEN Numbered(Len(output_lines) + i, lines[i])
                           ELSE lines[i]])))

\* arg[1:] of an option word
AfterDash(arg) == CASE arg = <<"-e">> -> "e" [] arg = <<"-ne">> -> "ne" [] arg = <<"-en">> -> "en"

CatExecute(fs, args) ==
    Let({i \in DOMAIN args : args[i] \notin {<<"-n">>, <<"--number">>}}, LAMBDA rest :
        IF \E i \in rest : StartsWithDash(args[i])
        THEN Let(CHOOSE i \in rest : StartsWithDash(args[i])
                    /\ \A j \in rest : j < i => ~StartsWithDash(args[j]), LAMBDA i :
                 [fs |-> fs,
                  res |-> fail(<<"cat: gecersiz secenek -- '", AfterDash(args[i]), "'">>)])
        ELSE IF rest = {} THEN [fs |-> fs, res |-> fail(<<"cat: eksik dosya isleneni">>)]
        ELSE [fs |-> fs,
              res |-> CatFiles(fs, [k \in 1..Cardinality(rest) |->
                                       args[CHOOSE i \in rest :
                                               Cardinality({j \in rest : j < i}) = k - 1]],
                               Cardinality(rest) < Len(args), <<>>)])

\* cmd_class(self.fs, self).execute(args)
CommandExecute(fs, cmd, args) ==
    CASE cmd = "pwd"   -> PwdExecute(fs, args)
      [] cmd = "touch" -> TouchExecute(fs, args)
      [] cmd = "find"  -> FindExecute(fs, args)
      [] cmd = "echo"  -> EchoExecute(fs, args)
      [] cmd = "cat"   -> CatExecute(fs, args)
      [] cmd = "clear" -> ClearExecute(fs, args)

\* ----------------------------------------------------------- Shell.execute
\* The path of a redirect target.
TargetPath(stdout_file) == ArgPath(stdout_file)

\* _execute_parsed that pipes onward whatever the result of the stage.
PipesOnwardAlways(parsed, result) == parsed.pipe_to # <<>>

\* The test of the pipe branch of _execute_parsed.
PipesOnward(parsed, result) == parsed.pipe_to # <<>> /\ result.success

\* _execute_parsed that redirects whatever the result of the command.
RedirectsAlways(parsed, result) == parsed.stdout_file # <<>>

\* The test of the redirect branch of _execute_parsed.
Redirects(parsed, result) == parsed.stdout_file # <<>> /\ result.success

\* A stage that takes the text forwarded to it as its operand when it has
\* none of its own.
ExecuteArgsFromStdin(parsed, stdin) ==
    IF parsed.args = <<>> /\ stdin # <<>> THEN <<stdin>> ELSE parsed.args

\* The arguments of cmd.execute(parsed.args): stdin is not among them.
ExecuteArgs(parsed, stdin) == parsed.args

\* Shell._execute_parsed: the filesystem afterwards, the result, and the
\* calls of cmd.execute made on the way, in their order.  stdin is the
\* output the previous stage forwarded, empty for the first stage.
RECURSIVE execute_parsed(_, _, _)
execute_parsed(fs, parsed, stdin) ==
    IF parsed.name = <<>> THEN [fs |-> fs, res |-> ok(<<>>), invoked |-> <<>>]
    ELSE Let(registry_get(parsed.name), LAMBDA cmd :
         IF cmd = NotFound
         THEN [fs |-> fs, invoked |-> <<>>,
               res |-> fail(<<"bash: ">> \o parsed.name \o <<": komut bulunamadi">>)]
         ELSE Let(validate_args(cmd, parsed.args), LAMBDA error :
              IF error # <<>> THEN [fs |-> fs, res |-> fail(error), invoked |-> <<>>]
              ELSE Let(CommandExecute(fs, cmd, ExecuteArgs(parsed, stdin)), LAMBDA r :
                   Let(<<[cmd |-> cmd, args |-> ExecuteArgs(parsed, stdin)]>>, LAMBDA call :
                   IF r.res.raised # ""
                   THEN [fs |-> r.fs, invoked |-> call,
                         res |-> fail(parsed.name \o <<": ", r.res.raised>>)]
                   ELSE IF PipesOnward(parsed, r.res)
                   THEN Let(execute_parsed(r.fs, parsed.pipe_to[1], r.res.output),
                            LAMBDA pipe_result :
                            [pipe_result EXCEPT !.invoked = call \o @])
                   ELSE IF Redirects(parsed, r.res)
                   THEN Let(write(r.fs, TargetPath(parsed.stdout_file),
                                  Append(r.res.output, "\n"), parsed.stdout_append),
                            LAMBDA w :
                            IF Raised(w)
                            THEN [fs |-> w.fs, invoked |-> call,
                                  res |-> fail(<<"bash: ">> \o parsed.stdout_file
                                               \o <<": ", w.ret>>)]
                            ELSE [fs |-> w.fs, res |-> ok(<<>>), invoked |-> call])
                   ELSE [fs |-> r.fs, res |-> r.res, invoked |-> call]))))

\* _add_history with the limit test left out.
add_historyNoLimit(hist, cmd) ==
    IF hist # <<>> /\ Last(hist) = cmd THEN hist ELSE Append(hist, cmd)

\* Shell._add_history
add_history(hist, cmd) ==
    IF hist # <<>> /\ Last(hist) = cmd THEN hist
    ELSE Let(Append(hist, cmd), LAMBDA h :
             IF Len(h) > history_max THEN Tail(h) ELSE h)

\* Shell.execute: the filesystem and the history afterwards, the result (or
\* the exception that left the call) and the calls of cmd.execute made.
execute(fs, hist, line) ==
    Let(Strip(line), LAMBDA command_line :
        IF command_line = <<>>
        THEN [fs |-> fs, history |-> hist, res |-> ok(<<>>), invoked |-> <<>>]
        ELSE Let(add_history(hist, command_line), LAMBDA h :
             Let(parse(command_line, 1), LAMBDA p :
                 IF p.raised = "ValueError"
                 THEN [fs |-> fs, history |-> h, invoked |-> <<>>,
                       res |-> fail(<<"bash: sozdizimi hatasi: ", "No closing quotation">>)]
                 ELSE IF p.raised # ""
                 THEN [fs |-> fs, history |-> h, invoked |-> <<>>, res |-> raise(p.raised)]
                 ELSE Let(execute_parsed(fs, p.parsed, <<>>), LAMBDA r :
                          [fs |-> r.fs, history |-> h, res |-> r.res,
                           invoked |-> r.invoked]))))

ExecuteCall(L) ==
    /\ \E line \in L : \E r \in {execute(FS, history, line)} :
          /\ Commit(Ok(r.fs), saved)
          /\ history' = r.history
    /\ UNCHANGED <<resolved, parse_call, octal_call>>

\* The lines of a session: a command that changes the tree, an unknown
\* command, a command without its operand, a redirect, and a pipeline whose
\* first stage fails while there is no Documents.
ShellLines ==
    {<<"touch", Space, "Documents">>, <<"Documents">>, <<"touch">>,
     <<"echo", Space, "a", ">", "Documents">>,
     <<"cat", Space, "Documents", "|", "touch", Space, "Documents">>}

NextShell ==
    \/ ExecuteCall(ShellLines)
    \/ CdCall({RootPath})

SpecShell == Init /\ [][NextShell]_vars

\* The lines the properties below are stated for keep every path handed to
\* the filesystem (an argument of a command other than echo, a redirect
\* target) within one atom.
RECURSIVE ParsedInBounds(_)
ParsedInBounds(parsed) ==
    /\ Len(parsed.stdout_file) <= 1
    /\ parsed.name # <<"echo">> => \A i \in DOMAIN parsed.args : Len(parsed.args[i]) <= 1
    /\ parsed.pipe_to # <<>> => ParsedInBounds(parsed.pipe_to[1])

InBounds(line) ==
    Let(parse(Strip(line), 1), LAMBDA p : p.raised # "" \/ ParsedInBounds(p.parsed))

\* The stages of a parsed line, in their order.
RECURSIVE Stages(_)
Stages(parsed) ==
    <<parsed>> \o (IF parsed.pipe_to = <<>> THEN <<>> ELSE Stages(parsed.pipe_to[1]))

\* What a caller can see of the filesystem: the tree and the directories.
Visible(fs) == [tree |-> TreeOf(fs), cwd |-> fs.cwd, prev_cwd |-> fs.prev_cwd]

\* C20: execute raises for no line; when the command raises inside execute
\* the result is a failure that names the command, when the write to the
\* redirect target raises it is a failure that names the target, and the
\* shell answers the next line.
C20Lines ==
    {l \in AtomSeqs({"find", "Documents", "..", Space, "|", ">"}, MaxLineLen) : InBounds(l)}

C20_ExecuteNeverRaises ==
    \A line \in C20Lines :
        LET r == execute(FS, history, line)
            p == parse(Strip(line), 1)
        IN  /\ r.res.raised = ""
            /\ execute(r.fs, r.history, <<"pwd">>).res = ok(JoinSlash(r.fs.cwd))
            /\ p.raised = "" /\ p.parsed.pipe_to = <<>>
               /\ registry_get(p.parsed.name) # NotFound
               /\ validate_args(registry_get(p.parsed.name), p.parsed.args) = <<>> =>
                  LET c == CommandExecute(FS, registry_get(p.parsed.name), p.parsed.args) IN
                  /\ c.res.raised # "" =>
                        /\ ~r.res.success
                        /\ r.res.error = p.parsed.name \o <<": ", c.res.raised>>
                  /\ c.res.raised = "" /\ c.res.success /\ p.parsed.stdout_file # <<>>
                     /\ Raised(write(c.fs, TargetPath(p.parsed.stdout_file),
                                     Append(c.res.output, "\n"), p.parsed.stdout_append)) =>
                        /\ ~r.res.success
                        /\ Contains(r.res.error, p.parsed.stdout_file)

\* The pipelines of at most n stages taken from S.
RECURSIVE PipeLines(_, _)
PipeLines(S, n) ==
    IF n = 1 THEN S
    ELSE S \cup {s \o <<"|">> \o t : s \in S, t \in PipeLines(S, n - 1)}

\* Whether a name token is the name or an alias of a registered command.
Registered(name) ==
    \E w \in Commands \cup DOMAIN Aliases : name = <<w>>

\* C21: a line whose command name is no registered name and no alias gives a
\* failed result whose error holds that name; nothing is raised, no command
\* is executed, and the tree, cwd and prev_cwd are as before.
C21Lines ==
    {l \in PipeLines({<<"Documents">>, <<"touch", "a">>, <<"touch", Space, "a">>},
                      MaxStages) \cup {<<"a", ">", "Documents">>} : InBounds(l)}

C21_UnknownCommandFails ==
    \A line \in C21Lines :
        LET p == parse(Strip(line), 1) IN
        p.raised = "" /\ p.parsed.name # <<>> /\ ~Registered(p.parsed.name) =>
            Let(execute(FS, history, line), LAMBDA r :
                /\ r.res.raised = ""
                /\ ~r.res.success
                /\ Contains(r.res.error, p.parsed.name)
                /\ r.invoked = <<>>
                /\ Visible(r.fs) = Visible(FS))

\* An unknown command has been executed, and the tree still has no Documents.
C21_Witness ==
    /\ history # <<>>
    /\ Last(history) = <<"Documents">>
    /\ ~Registered(Last(history))
    /\ ~execute(FS, history, Last(history)).res.success
    /\ ~exists(FS, <<"Documents">>)

\* Whether the number of arguments is within min_args and max_args of cmd.
ArityHolds(cmd, args) ==
    /\ Len(args) >= min_args(cmd)
    /\ max_args(cmd) = NoMax \/ Len(args) <= max_args(cmd)

\* C22: arity is checked before execution.  A registered command called
\* with fewer arguments than min_args fails with "missing operand", with
\* more than max_args with "too many arguments"; its execute is not invoked
\* and the filesystem is as before; and whatever execute is invoked, on any
\* stage, got a number of arguments within the two counts.
C22Lines ==
    {l \in PipeLines({<<"touch">>, <<"cls", Space, "a">>, <<"touch", Space, "a">>},
                      MaxStages)
            \cup {<<"touch", ">", "Documents">>, <<"pwd", Space, "Documents">>} :
        InBounds(l)}

C22_ArityCheckedBeforeExecute ==
    \A line \in C22Lines :
        Let(parse(Strip(line), 1), LAMBDA p :
        Let(execute(FS, history, line), LAMBDA r :
            /\ \A i \in DOMAIN r.invoked : ArityHolds(r.invoked[i].cmd, r.invoked[i].args)
            /\ p.raised = "" /\ registry_get(p.parsed.name) # NotFound
               /\ ~ArityHolds(registry_get(p.parsed.name), p.parsed.args) =>
                  /\ r.res.raised = ""
                  /\ ~r.res.success
                  /\ r.res.error =
                        <<registry_get(p.parsed.name),
                          IF Len(p.parsed.args) < min_args(registry_get(p.parsed.name))
                          THEN ": missing operand" ELSE ": too many arguments">>
                  /\ r.invoked = <<>>
                  /\ r.fs = FS))

\* touch has been executed without its operand and is refused, as is pwd
\* with an argument.
C22_Witness ==
    /\ history # <<>>
    /\ Last(history) = <<"touch">>
    /\ ~ArityHolds("touch", <<>>)
    /\ execute(FS, history, <<"touch">>).res.error = <<"touch", ": missing operand">>
    /\ execute(FS, history, <<"pwd", Space, "Documents">>).res.error
          = <<"pwd", ": too many arguments">>

\* A line with a malformed quote sequence: read from the left, a quote is
\* still open at its end.
Malformed(line) == QuoteBefore(line, Len(line) + 1) # ""

\* C23: a line with a malformed quote sequence, in whatever stage, gives a
\* syntax-error failure and nothing of it is executed: the tree, cwd and
\* prev_cwd are as before.
C23Lines ==
    {l \in PipeLines({<<"touch", Space, "Documents">>, <<"touch", Space, SQuote>>,
                      <<"pwd", ">", DQuote>>}, MaxStages) : InBounds(l)}

C23_MalformedQuoteExecutesNothing ==
    \A line \in C23Lines :
        Malformed(line) =>
            LET r == execute(FS, history, line) IN
            /\ r.res.raised = ""
            /\ ~r.res.success
            /\ r.res.error[1] = "bash: sozdizimi hatasi: "
            /\ r.invoked = <<>>
            /\ Visible(r.fs) = Visible(FS)

\* The content of the file at path, nothing when there is no file.
ContentAt(fs, path) ==
    IF exists(fs, path) /\ ~isdir(fs, path) THEN cat(fs, path) ELSE <<>>

\* C24: when a command succeeds and has a redirect target, its output goes
\* to the target file: after ">" the file holds the output and a line
\* terminator, after ">>" its previous content followed by them, and the
\* result of a line that ends with the redirect is success with empty
\* output; so "echo hello > Documents" and then "cat Documents" gives
\* exactly "hello".
C24Stages ==
    {<<"echo", Space, "hello", ">", "Documents">>,
     <<"echo", Space, "hello", ">", ">", "Documents">>,
     <<"pwd", Space, ">", Space, "a">>}

C24Lines == C24Stages \cup {s \o <<Space, "|", Space, "pwd">> : s \in C24Stages}

C24_RedirectWritesOutput ==
    \A line \in C24Lines :
        LET p == parse(Strip(line), 1).parsed
            cmd == registry_get(p.name)
            c == CommandExecute(FS, cmd, p.args)
            target == TargetPath(p.stdout_file)
            r == execute(FS, history, line)
        IN  /\ cmd # NotFound /\ validate_args(cmd, p.args) = <<>>
               /\ c.res.raised = "" /\ c.res.success /\ p.stdout_file # <<>>
               /\ ~Raised(write(c.fs, target, Append(c.res.output, "\n"), p.stdout_append)) =>
                  /\ exists(r.fs, target)
                  /\ ~isdir(r.fs, target)
                  /\ ContentAt(r.fs, target) =
                        (IF p.stdout_append THEN ContentAt(FS, target) ELSE <<>>)
                        \o c.res.output \o <<"\n">>
                  /\ p.pipe_to = <<>> => r.res = ok(<<>>)
            /\ line = <<"echo", Space, "hello", ">", "Documents">> =>
                  execute(r.fs, r.history, <<"cat", Space, "Documents">>).res
                     = ok(<<"hello">>)

\* The stages of a pipeline run one after the other, each as a line of its
\* own on the filesystem its predecessor left, up to the first that fails.
RECURSIVE RunStages(_, _)
RunStages(fs, stages) ==
    Let(execute_parsed(fs, [Head(stages) EXCEPT !.pipe_to = <<>>], <<>>), LAMBDA first :
        IF Len(stages) = 1 \/ ~first.res.success THEN first
        ELSE Let(RunStages(first.fs, Tail(stages)), LAMBDA rest :
                 [rest EXCEPT !.invoked = first.invoked \o @]))

\* C25: the stages of a pipeline run from left to right, stage k+1 only when
\* stage k succeeded: the first stage that fails (unknown command, arity,
\* failed execute) ends the pipeline, its failure is the result of the line
\* and no later stage touches the filesystem; when all succeed the result is
\* that of the last stage.
C25Lines ==
    {l \in PipeLines({<<"touch", Space, "a">>, <<"cat", Space, "a">>, <<"Documents">>},
                      MaxStages)
            \cup {<<"touch", "|", "touch", Space, "a">>,
                  <<"touch", Space, "a", "|", "touch">>} :
        InBounds(l)}

C25_PipelineStopsAtFirstFailure ==
    \A line \in C25Lines :
        Let(Stages(parse(Strip(line), 1).parsed), LAMBDA stages :
        Let(execute(FS, history, line), LAMBDA r :
            /\ Let(RunStages(FS, stages), LAMBDA run :
                   /\ r.fs = run.fs
                   /\ r.res = run.res
                   /\ r.invoked = run.invoked)
            /\ Len(r.invoked) <= Len(stages)
            /\ \A k \in 1..(Len(stages) - 1) :
                  Let(RunStages(FS, SubSeq(stages, 1, k)), LAMBDA first :
                      ~first.res.success =>
                         /\ r.res = first.res
                         /\ r.fs = first.fs
                         /\ Len(r.invoked) <= k)))

\* The pipeline "cat Documents | touch Documents" has been executed where
\* there is no Documents: cat failed, and touch has made none.
C25_Witness ==
    /\ history = <<(<<"cat", Space, "Documents", "|", "touch", Space, "Documents">>)>>
    /\ ~exists(FS, <<"Documents">>)
    /\ cwd = home
    /\ prev_cwd = home
    /\ Len(Stages(parse(history[1], 1).parsed)) = 2
    /\ ~execute(FS, <<>>, history[1]).res.success
    /\ execute(FS, <<>>, history[1]).invoked = <<[cmd |-> "cat", args |-> <<(<<"Documents">>)>>]>>

\* C28: the history never holds more than history_max entries and no two
\* neighbours in it are equal; a call that changes it puts its line at the
\* end, behind the entries there were, in their order, and when the buffer
\* was full the oldest entry is gone.
C28_HistoryBounded ==
    /\ [](/\ Len(history) <= history_max
          /\ \A i \in 1..(Len(history) - 1) : history[i] # history[i + 1])
    /\ [][history' # history =>
             /\ history' # <<>>
             /\ history = <<>> \/ Last(history) # Last(history')
             /\ history' = IF Len(history) < history_max
                           THEN Append(history, Last(history'))
                           ELSE Append(Tail(history), Last(history'))]_vars

\* The buffer is full and a line executed earlier has been evicted: there is
\* a Documents, and no line left in the history can have made it.
C28_Witness ==
    /\ Len(history) = history_max
    /\ exists(FS, <<"Documents">>)
    /\ \A i \in DOMAIN history : history[i] \in {<<"Documents">>, <<"touch">>}

\* C29: a line that ends in a syntax error, in an unknown-command failure or
\* in an arity failure is not in the history after the call.
C29Lines == {<<DQuote>>, <<"Documents">>, <<"touch">>, <<"pwd", Space, "a">>}

C29_FailedLinesNotInHistory ==
    \A line \in C29Lines :
        LET r == execute(FS, history, line) IN
        ~r.res.success /\ r.invoked = <<>> =>
            \A i \in DOMAIN r.history : r.history[i] # Strip(line)

\* ------------------------------------------------------------ TaskValidator
\* A Task, as far as validate reads it.  check_cwd, check_exists and
\* check_not_exists are paths, <<>> for None; accepted_commands is a
\* sequence of command texts.
Task(success_message, accepted_commands, check_cwd, check_exists, check_not_exists) ==
    [success_message |-> success_message, accepted_commands |-> accepted_commands,
     check_cwd |-> check_cwd, check_exists |-> check_exists,
     check_not_exists |-> check_not_exists]

\* The truth value of an optional path: None and "" are false.
Truthy(path) == path # <<>> /\ path # EmptyStr

\* str.split(): the words between the blanks.
RECURSIVE SplitWords(_, _)
SplitWords(s, word) ==
    IF s = <<>> THEN (IF word = <<>> THEN <<>> ELSE <<word>>)
    ELSE IF Head(s) = Space
    THEN (IF word = <<>> THEN <<>> ELSE <<word>>) \o SplitWords(Tail(s), <<>>)
    ELSE SplitWords(Tail(s), Append(word, Head(s)))

\* check_cwd taken as it is, without the replacement of "~".
ReplaceTildeNot(path) == path

\* check_cwd.replace("~", self.fs.home)
RECURSIVE ReplaceTilde(_)
ReplaceTilde(path) ==
    IF path = <<>> THEN <<>>
    ELSE (IF Head(path) = "~" THEN home ELSE <<Head(path)>>) \o ReplaceTilde(Tail(path))

\* The verdicts of validate: (True, success_message), (False, "") and the
\* IndexError of [0] on the words of a blank accepted command.
Passed(task) == [raised |-> "", success |-> TRUE, message |-> task.success_message]
Failed == [raised |-> "", success |-> FALSE, message |-> ""]
IndexError == [raised |-> "IndexError", success |-> FALSE, message |-> ""]

\* The loop over the accepted commands with the exact comparison only.
MatchAcceptedExact(task, command, accepted_commands) ==
    IF \E i \in DOMAIN accepted_commands :
          SplitWords(command, <<>>) = SplitWords(accepted_commands[i], <<>>)
    THEN [raised |-> "", success |-> TRUE, message |-> task.success_message]
    ELSE [raised |-> "", success |-> FALSE, message |-> ""]

\* The loop of validate over the accepted commands.
RECURSIVE MatchAccepted(_, _, _)
MatchAccepted(task, command, accepted_commands) ==
    IF accepted_commands = <<>> THEN Failed
    ELSE Let(SplitWords(Head(accepted_commands), <<>>), LAMBDA accepted :
         IF SplitWords(command, <<>>) = accepted THEN Passed(task)
         ELSE IF accepted = <<>> THEN IndexError
         ELSE IF SplitWords(command, <<>>) # <<>>
                 /\ SplitWords(command, <<>>)[1] = accepted[1]
         THEN Passed(task)
         ELSE MatchAccepted(task, command, Tail(accepted_commands)))

\* has_file_checks that looks at check_exists only.
has_file_checksExistsOnly(task) == Truthy(task.check_exists)

\* has_file_checks = task.check_exists or task.check_not_exists
has_file_checks(task) == Truthy(task.check_exists) \/ Truthy(task.check_not_exists)

\* TaskValidator.validate
validate(fs, task, command) ==
    IF has_file_checks(task)
    THEN (IF Truthy(task.check_exists) /\ ~exists(fs, task.check_exists) THEN Failed
          ELSE IF Truthy(task.check_not_exists) /\ exists(fs, task.check_not_exists)
          THEN Failed
          ELSE Passed(task))
    ELSE IF Truthy(task.check_cwd)
    THEN (IF fs.cwd # ReplaceTilde(task.check_cwd) THEN Failed ELSE Passed(task))
    ELSE IF task.accepted_commands # <<>>
    THEN MatchAccepted(task, Strip(command), task.accepted_commands)
    ELSE Passed(task)

\* The tasks and the command texts validate is called with.
TaskPaths == {<<>>, EmptyStr, <<"Documents">>, <<"", "Documents">>}
Tasks ==
    {Task("done", ac, cc, ce, cn) :
        ac \in {<<>>, <<(<<"touch", Space, "Documents">>)>>},
        cc \in {<<>>, RootPath},
        ce \in TaskPaths, cn \in TaskPaths}
TaskCommands ==
    {<<"touch", Space, "Documents">>, <<"echo", Space, "a", ">", "Documents">>, <<"pwd">>}

\* C30: when a task sets check_exists or check_not_exists, validate passes
\* exactly when the check_exists path (if set) exists and the
\* check_not_exists path (if set) does not; the verdict is the same for any
\* two command texts and does not depend on accepted_commands or check_cwd.
C30_FileChecksDecide ==
    \A task \in Tasks :
        Truthy(task.check_exists) \/ Truthy(task.check_not_exists) =>
            Let({validate(FS, task, c) : c \in TaskCommands}, LAMBDA verdicts :
                /\ Cardinality(verdicts) = 1
                /\ \A v \in verdicts :
                      /\ v.raised = ""
                      /\ v.success <=>
                            /\ Truthy(task.check_exists) => exists(FS, task.check_exists)
                            /\ Truthy(task.check_not_exists) =>
                                  ~exists(FS, task.check_not_exists)
                      /\ v = validate(FS, [task EXCEPT !.accepted_commands = <<>>,
                                                       !.check_cwd = <<>>], <<>>))

\* Documents has been made by a redirect of echo, away from the directory of
\* check_cwd, and a task that accepts only "touch Documents" passes on its
\* check_exists for the echo line.
C30_Witness ==
    /\ history # <<>>
    /\ Last(history) = <<"echo", Space, "a", ">", "Documents">>
    /\ cwd = home
    /\ exists(FS, <<"Documents">>)
    /\ validate(FS, Task("done", <<(<<"touch", Space, "Documents">>)>>, RootPath,
                         <<"Documents">>, <<"", "Documents">>),
                Last(history)) = Passed(Task("done", <<>>, <<>>, <<>>, <<>>))

\* The command texts of the two properties below: those of TaskCommands,
\* the line executed last, and texts that differ in their blanks, in their
\* arguments or in their leading word.
ValidateCommands ==
    TaskCommands \cup {history[i] : i \in DOMAIN history}
        \cup {<<>>, <<"touch", Space, Space, "Documents", Space>>, <<"touch", Space, "a">>,
              <<"cat", Space, "Documents">>}

\* C31: a task without a path criterion that sets check_cwd passes exactly
\* when cwd is the expected directory, "~" standing for home, whatever the
\* command text and the accepted commands are.
C31Cwds ==
    {<<(<<"~">>), home>>, <<RootPath, RootPath>>,
     <<(<<"~", "Documents">>), home \o <<"Documents">>>>}

C31_CwdCheckDecides ==
    \A cc \in C31Cwds :
    \A ac \in {<<>>, <<(<<"touch", Space, "Documents">>)>>} :
    \A ce \in {<<>>, EmptyStr} :
        Let(Task("done", ac, cc[1], ce, <<>>), LAMBDA task :
            \A c \in ValidateCommands :
                validate(FS, task, c) = IF cwd = cc[2] THEN Passed(task) ELSE Failed)

\* After a cd to "/" a task that expects "/" passes for a line that is none
\* of its accepted commands, and a task that expects "~" fails.
C31_Witness ==
    /\ cwd = RootPath
    /\ prev_cwd = home
    /\ history # <<>>
    /\ Last(history) = <<"Documents">>
    /\ validate(FS, Task("done", <<(<<"touch", Space, "Documents">>)>>, RootPath, <<>>, <<>>),
                Last(history)).success
    /\ ~validate(FS, Task("done", <<>>, <<"~">>, <<>>, <<>>), Last(history)).success

\* C32: a task with neither a path nor a cwd criterion passes exactly when
\* the command, its blanks normalized, equals an accepted command or has the
\* leading word of one; without accepted commands it always passes; the
\* message is success_message when it passes and empty when it fails.
C32Accepted ==
    {<<>>, <<(<<"touch", Space, "Documents">>)>>,
     <<(<<"pwd">>), <<Space, "echo", Space, Space, "a", ">", "Documents">>>>}

C32_AcceptedCommandsDecide ==
    \A ac \in C32Accepted :
        Let(Task("done", ac, <<>>, <<>>, EmptyStr), LAMBDA task :
            \A c \in ValidateCommands :
                Let(validate(FS, task, c), LAMBDA v :
                Let(SplitWords(c, <<>>), LAMBDA words :
                    /\ v.raised = ""
                    /\ v.success <=>
                          \/ ac = <<>>
                          \/ \E i \in DOMAIN ac :
                                Let(SplitWords(ac[i], <<>>), LAMBDA accepted :
                                    \/ words = accepted
                                    \/ words # <<>> /\ words[1] = accepted[1])
                    /\ v.message = IF v.success THEN "done" ELSE "")))

\* "touch Documents" has been executed with blanks of its own choice in the
\* task: it passes on the normalized text, "touch a" on the leading word,
\* and "cat Documents" fails.
C32_Witness ==
    /\ history # <<>>
    /\ Last(history) = <<"touch", Space, "Documents">>
    /\ exists(FS, <<"Documents">>)
    /\ Let(Task("done", <<(<<"touch", Space, Space, "Documents">>)>>, <<>>, <<>>, <<>>),
           LAMBDA task :
           /\ validate(FS, task, Last(history)) = Passed(task)
           /\ validate(FS, task, <<"touch", Space, "a">>) = Passed(task)
           /\ validate(FS, task, <<"cat", Space, "Documents">>) = Failed)

\* C33: a result returned by execute has text on one side only: a
\* successful one has an empty error, a failed one an empty output and an
\* error that is not empty.
C33Lines ==
    {<<"pwd">>, <<"touch">>, <<"Documents">>, <<DQuote>>, <<"find", Space, "a">>,
     <<"pwd", ">", "..">>, <<"cat", Space, "Documents">>, <<"cat", Space, "-e">>,
     <<"echo", Space, "a", ">", "Documents">>, <<"cls">>, <<"pwd", Space, "Documents">>,
     <<"touch", Space, "a", "|", "cat", Space, "a">>,
     <<"touch", Space, "..", "|", "cat", Space, "..">>}

C33_OneSideCarriesText ==
    \A line \in C33Lines :
        Let(execute(FS, history, line).res, LAMBDA res :
            res.raised = "" =>
                /\ res.success => res.error = <<>>
                /\ ~res.success =>
                      /\ res.output = <<>>
                      /\ res.error # <<>>
                      /\ \E i \in DOMAIN res.error : res.error[i] # "")

\* Documents has been written by a redirect and an unknown command executed
\* after it: cat now succeeds with output only, the unknown command fails
\* with an error only.
C33_Witness ==
    /\ Len(history) = 2
    /\ history[1] = <<"echo", Space, "a", ">", "Documents">>
    /\ history[2] = <<"Documents">>
    /\ cwd = home
    /\ execute(FS, history, <<"cat", Space, "Documents">>).res = ok(<<"a">>)
    /\ execute(FS, history, history[2]).res.output = <<>>
    /\ execute(FS, history, history[2]).res.error # <<>>

\* -------------------------------------------------------------- Permission
\* The numbers whose three decimal digits are octal digits: 000 .. 777.
OctalDigits == 0..7
OctalInputs == {100 * u + 10 * g + o : u \in OctalDigits, g \in OctalDigits, o \in OctalDigits}

\* (from_octal changes nothing, so one call per behaviour loses no case)
OctalCall ==
    \E n \in OctalInputs :
        /\ octal_call = NoOctal
        /\ octal_call' = [called |-> TRUE, octal |-> n, permission |-> from_octal(n)]
        /\ UNCHANGED <<heap, root, cwd, prev_cwd, checkpoint, checkpoint_cwd, saved,
                       resolved, history, parse_call>>

NextOctal == OctalCall

SpecOctal == Init /\ [][NextOctal]_vars

\* C34: for every n whose three decimal digits are octal digits,
\* from_octal(n).to_octal() is n.
C34_OctalRoundTrip ==
    octal_call.called => to_octal(octal_call.permission) = octal_call.octal

\* from_octal has been called with 751, which sets flags of all three kinds.
C34_Witness ==
    /\ octal_call.called
    /\ octal_call.octal = 751
    /\ octal_call.permission =
          {"R_USER", "W_USER", "X_USER", "R_GROUP", "X_GROUP", "X_OTHER"}

\* Left-hand commands of a pipe: without a redirect, and with one.
C35StagesA ==
    {<<"echo", Space, "Documents">>, <<"pwd">>, <<"touch", Space, "a">>,
     <<"cat", Space, "Documents">>}

C35Redirected ==
    {<<"echo", Space, "a", ">", "Documents">>, <<"pwd", ">", ">", "a">>}

C35StagesB ==
    {<<"cat">>, <<"touch">>, <<"cat", Space, "a">>, <<"echo">>, <<"find">>,
     <<"pwd", ">", "Documents">>, <<"Documents">>}

\* For every command A of the set S that succeeds on a line of its own and
\* every stage B, "A | B" gives the result and leaves the filesystem that A
\* and then B give as two lines.
InertFor(S) ==
    \A A \in S :
        Let(execute(FS, history, A), LAMBDA a :
            a.res.raised = "" /\ a.res.success =>
                \A B \in C35StagesB :
                    Let(execute(FS, history, A \o <<Space, "|", Space>> \o B), LAMBDA piped :
                    Let(execute(a.fs, a.history, B), LAMBDA b :
                        /\ piped.res = b.res
                        /\ piped.fs = b.fs)))

\* C35: pipes are inert.  For any commands A and B where A succeeds, the
\* line "A | B" returns the same result and leaves the same filesystem as
\* A and then B executed as two lines.
C35_PipesAreInert == InertFor(C35StagesA \cup C35Redirected)

\* The part of C35 that the code keeps: a left-hand command that has no
\* redirect of its own.  The right-hand stage never sees the forwarded text.
C35_InertWithoutRedirect == InertFor(C35StagesA)

\* C36: a redirect on any stage of a pipeline takes effect.  Every stage of
\* the line that carries a redirect target and whose command succeeds leaves
\* its output and a line terminator in the target file, whether the stage
\* ends the line or a further "|" stage follows it.  The stages are echo and
\* pwd, which leave the tree alone, and their targets differ.
C36Lines ==
    {<<"echo", Space, "a", ">", "a", "|", "pwd">>,
     <<"pwd", "|", "echo", Space, "a", ">", "a">>,
     <<"pwd", ">", "Documents", "|", "echo", Space, "a", ">", "a">>,
     <<"echo", Space, "a", ">", "a", "|", "cat">>}

C36_RedirectOnEveryStage ==
    \A line \in C36Lines :
        Let(execute(FS, history, line), LAMBDA r :
            \A k \in DOMAIN Stages(parse(Strip(line), 1).parsed) :
                Let(Stages(parse(Strip(line), 1).parsed)[k], LAMBDA stage :
                Let(CommandExecute(FS, registry_get(stage.name), stage.args), LAMBDA c :
                Let(TargetPath(stage.stdout_file), LAMBDA target :
                    (/\ stage.stdout_file # <<>>
                     /\ c.res.raised = "" /\ c.res.success
                     /\ ~Raised(write(FS, target, Append(c.res.output, "\n"),
                                      stage.stdout_append)))
                    => /\ exists(r.fs, target)
                       /\ ContentAt(r.fs, target) = Append(c.res.output, "\n")))))

\* ------------------------------------------------------------------- sizes
\* Contents with a character of two bytes, alone and after a character of
\* one, written and appended to a file, which is then copied, moved, saved
\* in a checkpoint, restored and reset.
SizeContents == {<<"U+0131">>, <<"x", "U+0131">>}

WriteSizeCall ==
    /\ \E p \in NamePaths, c \in SizeContents, append \in BOOLEAN :
          Commit(write(FS, p, c, append), saved)
    /\ UNCHANGED <<resolved, history, parse_call, octal_call>>

NextSize ==
    \/ TouchCall({<<".bashrc">>})
    \/ WriteSizeCall
    \/ CpCall(NamePaths, NamePaths)
    \/ MvCall(NamePaths, NamePaths)
    \/ SaveCall
    \/ RestoreCall
    \/ ResetCall

SpecSize == Init /\ [][NextSize]_vars

\* The number of bytes UTF-8 takes for a text: one for a code point below
\* 128, two below 2048, three below 65536, four above.
RECURSIVE Utf8Length(_)
Utf8Length(text) ==
    IF text = <<>> THEN 0
    ELSE Utf8Length(Tail(text))
         + Let(TextChars(<<Head(text)>>), LAMBDA cps :
               Cardinality({i \in DOMAIN cps : TRUE})
               + Cardinality({i \in DOMAIN cps : cps[i] >= 128})
               + Cardinality({i \in DOMAIN cps : cps[i] >= 2048})
               + Cardinality({i \in DOMAIN cps : cps[i] >= 65536}))

\* The same of every file of a tree given as a value.
RECURSIVE SizesHold(_)
SizesHold(node) ==
    /\ ~node.is_dir => node.size = Utf8Length(node.content)
    /\ \A c \in DOMAIN node.children : SizesHold(node.children[c])

\* C37: in every reachable state every file node, of the live tree and of
\* the checkpoint, has for size the number of bytes of its content in UTF-8,
\* and so has every file of the filesystem that from_json reads back.
C37_SizeIsByteLength ==
    /\ \A i \in DOMAIN heap : ~heap[i].is_dir => heap[i].size = Utf8Length(heap[i].content)
    /\ SizesHold(from_json(to_json(FS)).root)

\* A one-byte and a two-byte character have been written and the file
\* copied: both files hold two characters and have size three.
C37_Witness ==
    /\ \A p \in NamePaths :
          /\ isfile(FS, p)
          /\ cat(FS, p) = <<"x", "U+0131">>
          /\ GetNode(FS, Resolve(FS, p)) # None
          /\ heap[GetNode(FS, Resolve(FS, p))].size = 3
    /\ GetNode(FS, Resolve(FS, <<"Documents">>)) # GetNode(FS, Resolve(FS, <<".bashrc">>))

\* C38: in every state that cd, mkdir, touch, rm and reset reach, cwd names
\* an existing directory of the current tree.
C38_CwdIsExistingDirectory ==
    /\ GetNode(FS, cwd) # None
    /\ isdir(FS, cwd)

\* C39: a redirect is applied only on success.  When the command of a line
\* with ">" or ">>" fails (unknown command, arity, failed execute, exception
\* in execute), the result is the failure the command gives without the
\* redirect, the tree is the one the command leaves without it, and the
\* target is neither created nor changed.
C39Commands ==
    {<<"Documents">>, <<"touch">>, <<"pwd", Space, "a">>, <<"cat", Space, "a">>,
     <<"cat", Space, "Documents">>, <<"find", Space, "a">>, <<"find", Space, "..", Space, "..">>}

C39Redirects ==
    {<<">", "Documents">>, <<">", ">", "Documents">>, <<Space, ">", Space, "a">>}

C39_RedirectOnlyOnSuccess ==
    \A command \in C39Commands :
        Let(execute(FS, history, command), LAMBDA bare :
            ~bare.res.success =>
                \A redirect \in C39Redirects :
                    Let(execute(FS, history, command \o redirect), LAMBDA r :
                    Let(<<redirect[Len(redirect)]>>, LAMBDA target :
                        /\ r.res = bare.res
                        /\ TreeOf(r.fs) = TreeOf(bare.fs)
                        /\ exists(r.fs, target) = exists(FS, target)
                        /\ ContentAt(r.fs, target) = ContentAt(FS, target))))

\* Documents holds a line written by a redirect and there is no "a": the
\* line "cat a >> Documents" fails and Documents is as before.
C39_Witness ==
    /\ history = <<(<<"echo", Space, "a", ">", "Documents">>)>>
    /\ ContentAt(FS, <<"Documents">>) = <<"a", "\n">>
    /\ ~exists(FS, <<"a">>)
    /\ ~execute(FS, history, <<"cat", Space, "a", ">", ">", "Documents">>).res.success

\* That the tree, the cwd and the two paths are after the call r as before.
NothingChanged(r, src, dst) ==
    /\ TreeOf(r.fs) = Tree
    /\ r.fs.cwd = cwd
    /\ exists(r.fs, src) = exists(FS, src)
    /\ exists(r.fs, dst) = exists(FS, dst)

\* C40: a failing mv is atomic.  When mv(src, dst) raises, the tree is the
\* one before the call: the source is where it was with its content and no
\* node has appeared at the destination; and mv raises only for a missing
\* source or a missing parent directory of the destination.
C40_FailingMvChangesNothing ==
    \A src \in Paths, dst \in Paths :
        Let(mv(FS, src, dst), LAMBDA r :
            Raised(r) =>
                /\ NothingChanged(r, src, dst)
                /\ r.ret = "PathNotFoundError")

\* The part of C40 that the code keeps: when mv raises for a missing source
\* or for a missing parent of the destination, nothing has changed.
C40_NotFoundChangesNothing ==
    \A src \in Paths, dst \in Paths :
        Let(mv(FS, src, dst), LAMBDA r :
            r.ret = "PathNotFoundError" => NothingChanged(r, src, dst))

====
